---- MODULE Spec2Model ----
(***************************************************************************)
(* Model of the OHLCV aggregation of BlockchainCore                        *)
(* (src/src/lambda/processor/processor.py: class OHLCVCalculator and the   *)
(* processor's lambda_handler) and of its anomaly detection                *)
(* (src/src/lambda/anomaly/detector.py: class AnomalyDetector).            *)
(*                                                                         *)
(* Python values are represented as follows.                               *)
(*   None            the empty tuple <<>>                                  *)
(*   a float x       the one-element tuple <<x>>, x an integer (prices and *)
(*                   quantities are drawn from integers, on which float    *)
(*                   arithmetic is exact)                                  *)
(*   an interval key the tuple <<day, hour, minute>> standing for the      *)
(*                   string strftime('%Y-%m-%dT%H:%M:00Z') builds: day is  *)
(*                   the day number that %Y-%m-%d prints, and string       *)
(*                   equality of keys is equality of the three fields      *)
(*   a dict entry    [t |-> "absent"] (no such key), [t |-> "num", v |-> n]  *)
(*                   (a number, or for 'p' and 'q' a numeric string),       *)
(*                   [t |-> "bad"] (a string that is not a number)          *)
(***************************************************************************)
EXTENDS Integers, Sequences, FiniteSets, TLC

VARIABLES
    symbol,            \* self.symbol
    interval_minutes,  \* self.interval_minutes
    current_interval,  \* self.current_interval
    ohlcv_data,        \* self.ohlcv_data
    call,              \* the last call made on the calculator and its inputs
    ret,               \* what that call returned (or that it raised)
    n_folded,          \* history: length of the run of accepted trades with the latest trade's key
    q_folded,          \* history: sum of the quantities of that run
    ordered,           \* history: every accepted trade so far had a timestamp >= the one before
    last_ts,           \* history: timestamp of the last accepted trade
    closed,            \* history: number of accepted trades keyed later than the trade before
    emitted,           \* history: number of candles returned by process_trade
    ncalls,            \* number of calls made so far
    \* the processor's lambda_handler
    pc,                \* where the handler is: "idle", "loop", "done", "raised"
    ohlcv_calculators, \* the handler's dict: symbol -> calculator, None where no entry
    calc_order,        \* the insertion order of that dict
    stored,            \* the candles handed to store_ohlcv_in_dynamodb by this invocation
    s3_puts,           \* the raw trades store_raw_data_in_s3 has put during this invocation
    table,             \* the DynamoDB table: (symbol, timestamp) -> item, None where no item
    response,          \* what the handler returned, None while it has not
    batch_size,        \* len(event['Records']) as far as the batch has been read
    invocations,       \* number of invocations started
    n_records,         \* number of records read over all invocations
    last_record,       \* history: symbol of the record handled last, None if none
    batch_keys,        \* history: the (symbol, key) pairs of the trades folded in this batch
    ledger,            \* history: per (symbol, key), first price, volume and count of all trades folded
    h_last_ts,         \* history: the event time of the record read last, None if none
    h_ordered,         \* history: no record read carried an earlier event time than the one before
    h_raised,          \* history: some invocation ended in an exception
    raise_cause,       \* history: what made this invocation raise, "none" if nothing did
    h_folds,           \* history: trades folded by this invocation
    \* the anomaly detector
    history,           \* the items get_recent_ohlcv_data returns for the symbol, most recent first
    det_call,          \* the last call made on the detector
    det_ret,           \* what that call returned (or that it raised)
    det_first,         \* history: what the first detect_anomalies call returned, None before it
    \* a candle in the hands of the calculator's caller
    candle_out,        \* the dict get_ohlcv_data returned last, None if it returned none
    candle_was,        \* history: the fields of that dict when it was returned
    since_reset,       \* history: trades folded since construction or the last reset
    \* the detector's lambda_handler
    a_pc,              \* where the handler is: "idle", "symbols", "done", "raised"
    db,                \* per symbol, the items a query of its last 60 minutes returns
    scanned,           \* the symbols of the items table.scan returns
    a_todo,            \* the symbols the loop has not reached yet, in its order
    a_pending,         \* the anomalies of the current symbol not yet handed to send_sns_alert
    all_anomalies,     \* the handler's list all_anomalies
    alerts,            \* the anomaly records handed to send_sns_alert, in order
    published,         \* number of sns_client.publish calls that succeeded
    a_response,        \* what the handler returned, None while it has not
    a_cause,           \* history: what made the invocation raise, "none" if nothing did
    \* the GCP processor
    firestore,         \* the ohlcv_data collection: document id -> document, None where none
    g_inv,             \* the process_trade_data invocations: where each is, its trade, the document it read
    g_started,         \* number of invocations started
    g_ledger,          \* history: per document id, the trades that arrived for it
    g_raced,           \* history: an invocation started while another had not finished
    g_calc,            \* history: per document id, an OHLCVCalculator given the same trades
    \* the producer
    running,           \* BinanceWebSocketProducer.running
    entry,             \* who constructed the producer: "main" or a caller embedding the class
    p_pc,              \* where run() is
    retry_count,       \* run()'s retry_count
    attempted,         \* history: connect_websocket was called
    p_reset,           \* history: a return of connect_websocket reset a positive retry_count
    received,          \* number of messages received from the WebSocket
    senders,           \* per message in arrival order, the state of its sender thread
    queue,             \* the messages of the send_message calls, in call order
    after_stop,        \* history: what happened since stop() was called on an open connection
    scan_items,        \* the Items of the API handler's table.scan, in the order returned
    api_response       \* what get_latest_ohlcv_data returned, None before

calcVars == <<symbol, interval_minutes, current_interval, ohlcv_data, call, ret,
              n_folded, q_folded, ordered, last_ts, closed, emitted, ncalls>>

handlerVars == <<pc, ohlcv_calculators, calc_order, stored, s3_puts, table, response,
                 batch_size, invocations, n_records, last_record, batch_keys,
                 ledger, h_last_ts, h_ordered, h_raised, raise_cause, h_folds>>

detVars == <<history, det_call, det_ret, det_first>>

candleVars == <<candle_out, candle_was, since_reset>>

alertVars == <<a_pc, db, scanned, a_todo, a_pending, all_anomalies, alerts,
               published, a_response, a_cause>>

gcpVars == <<firestore, g_inv, g_started, g_ledger, g_raced, g_calc>>

prodVars == <<running, entry, p_pc, retry_count, attempted, p_reset, received, senders, queue,
              after_stop>>

apiVars == <<scan_items, api_response>>

vars == <<calcVars, handlerVars, detVars, candleVars, alertVars, gcpVars, prodVars, apiVars>>

-----------------------------------------------------------------------------
(* Bounds *)

MaxCalls == 3          \* calls made on one calculator
MaxMinute == 1         \* trade timestamps lie in minutes 0..MaxMinute
MaxKeyMinute == 64     \* get_interval_key is evaluated on minutes 0..MaxKeyMinute

Prices == {0, 1, 2}
Quantities == {1, 2}
IntervalMinutes == {1, 2, 5, 7, 15}

MaxRecords == 3        \* records read by the handler over all its invocations
MaxInvocations == 2    \* invocations of the handler
MaxHistory == 26       \* the detector reads histories of 0..MaxHistory candles
MaxGcpInvocations == 3 \* invocations of the GCP function
MaxMessages == 2       \* messages received from the WebSocket
MaxItems == 3          \* items returned by the API handler's scan

\* what the handler's records carry
HandlerSymbols == {"BTCUSDT", "UNKNOWN"}
SymbolEntries == {[t |-> "str", v |-> "BTCUSDT"], [t |-> "absent"]}
HandlerPrices == {1, 2}
HandlerQuantities == {2}
HandlerTimestampsMs == {0, 60000}

\* the interval keys of the items the API handler scans
ApiTimestamps == {<<0, 0, 59>>, <<0, 1, 0>>}

\* run(): max_retries
max_retries == 3

\* what the messages of the GCP function carry
GcpSymbols == {"BTCUSDT", "ETHUSDT"}
GcpPrices == {1, 2}
GcpQuantities == {2}
GcpTimestampsMs == {0, 60000}

\* the symbols of the items in the detector's table
DetectorSymbols == {"BTCUSDT", "ETHUSDT"}

\* the thresholds of the detector (the defaults of the environment variables)
PRICE_THRESHOLD == 5
VOLUME_THRESHOLD == 3
SMA_THRESHOLD == 2

\* what the detector's histories are made of: the closes of the newest candles
\* and of the older ones, how many candles count as newest, and the volumes
\* of the candle at index 0, of those at indexes 1..vsplit-1 and of the rest
NewCloses == {0, 100, 102, 104, 105, 110, 111}
OldCloses == {0, 96, 98, 100, 110}
Splits == {1, 10, 20}
VolumeProfiles ==
    [v0 : {30, 31, 60, 61}, vA : {0, 10}, vB : {1000}, vsplit : {9, 10}]

None == <<>>
Some(x) == <<x>>

Absent == [t |-> "absent"]
Num(n) == [t |-> "num", v |-> n]
Bad == [t |-> "bad"]

\* Millisecond timestamps: the start of a minute, and 45.5 s into it.
TimestampsMs == {m * 60000 + off : m \in 0..MaxMinute, off \in {0, 45500}}
KeyTimestampsMs == {m * 60000 + off : m \in 0..MaxKeyMinute, off \in {0, 45500}}

\* The trades fed to the calculator carry 'p' and 'q' (a number or not) and
\* may lack 'E'.
PriceEntries == {Num(p) : p \in Prices} \cup {Bad}
QuantityEntries == {Num(q) : q \in Quantities} \cup {Bad}
TimeEntries == {Num(t) : t \in TimestampsMs} \cup {Bad, Absent}

-----------------------------------------------------------------------------
(* Python helpers *)

Max(a, b) == IF a >= b THEN a ELSE b
Min(a, b) == IF a <= b THEN a ELSE b

\* dict.get(key, default)
DictGet(d, k, default) == IF d[k].t = "absent" THEN default ELSE d[k]

PyFloat_Lenient(x) == IF x.t = "num" THEN [ok |-> TRUE, v |-> x.v] ELSE [ok |-> TRUE, v |-> 0]

\* float(x): the value, or ValueError on a non-numeric string
PyFloat(x) == IF x.t = "num" THEN [ok |-> TRUE, v |-> x.v] ELSE [ok |-> FALSE, v |-> 0]

\* `a or b` on an optional float: None and 0.0 are falsy
PyOr(a, b) == IF a = None \/ a = Some(0) THEN b ELSE a[1]

\* order of the strings '%Y-%m-%dT%H:%M:00Z': by day, then hour, then minute
KeyLess(a, b) ==
    \/ a[1] < b[1]
    \/ a[1] = b[1] /\ a[2] < b[2]
    \/ a[1] = b[1] /\ a[2] = b[2] /\ a[3] < b[3]

-----------------------------------------------------------------------------
(* OHLCVCalculator *)

\* the dict __init__ builds
InitialOhlcv ==
    [open |-> None, high |-> None, low |-> None, close |-> None,
     volume |-> 0, trade_count |-> 0]

reset_ohlcv_KeepsTotals ==
    [open |-> None, high |-> None, low |-> None, close |-> None,
     volume |-> ohlcv_data.volume, trade_count |-> ohlcv_data.trade_count]

reset_ohlcv_Noop == ohlcv_data

\* the dict reset_ohlcv assigns to self.ohlcv_data
reset_ohlcv ==
    [open |-> None, high |-> None, low |-> None, close |-> None,
     volume |-> 0, trade_count |-> 0]

\* datetime.fromtimestamp(timestamp_ms / 1000): the fields of the local time
\* (the Lambda runtime's zone is UTC)
FromTimestamp(timestamp_ms) ==
    LET s == timestamp_ms \div 1000 IN
    [day |-> s \div 86400,
     hour |-> (s % 86400) \div 3600,
     minute |-> (s % 3600) \div 60,
     second |-> s % 60,
     microsecond |-> (timestamp_ms % 1000) * 1000]

get_interval_key(im, timestamp_ms) ==
    LET dt == FromTimestamp(timestamp_ms)
        interval_start == [dt EXCEPT !.second = 0, !.microsecond = 0,
                                     !.minute = (dt.minute \div im) * im]
    IN  <<interval_start.day, interval_start.hour, interval_start.minute>>

get_ohlcv_data_Falsy(sym, ci, data) ==
    IF data.open = None \/ data.open = Some(0)
    THEN None
    ELSE [symbol |-> sym, timestamp |-> ci,
          open |-> data.open[1], high |-> data.high[1], low |-> data.low[1],
          close |-> data.close[1], volume |-> data.volume,
          trade_count |-> data.trade_count]

get_ohlcv_data(sym, ci, data) ==
    IF data.open = None
    THEN None
    ELSE [symbol |-> sym, timestamp |-> ci,
          open |-> data.open[1], high |-> data.high[1], low |-> data.low[1],
          close |-> data.close[1], volume |-> data.volume,
          trade_count |-> data.trade_count]

UpdateOhlcv_OpenOverwritten(data, price, quantity) ==
    [open |-> Some(price),
     high |-> Some(Max(PyOr(data.high, price), price)),
     low |-> Some(Min(PyOr(data.low, price), price)),
     close |-> Some(price),
     volume |-> data.volume + quantity,
     trade_count |-> data.trade_count + 1]

UpdateOhlcv_LowFromZero(data, price, quantity) ==
    [open |-> IF data.open = None THEN Some(price) ELSE data.open,
     high |-> Some(Max(PyOr(data.high, price), price)),
     low |-> Some(Min(IF data.low = None THEN 0 ELSE data.low[1], price)),
     close |-> Some(price),
     volume |-> data.volume + quantity,
     trade_count |-> data.trade_count + 1]

\* lines 81-89 of process_trade
UpdateOhlcv(data, price, quantity) ==
    [open |-> IF data.open = None THEN Some(price) ELSE data.open,
     high |-> Some(Max(PyOr(data.high, price), price)),
     low |-> Some(Min(PyOr(data.low, price), price)),
     close |-> Some(price),
     volume |-> data.volume + quantity,
     trade_count |-> data.trade_count + 1]

\* the value of process_trade's only return statement, whatever `result` holds
ProcessTradeReturn_Result(result) == result

ProcessTradeReturn(result) == None

\* trade_time.strftime('%Y-%m-%d-%H-%M') of the UTC time of a timestamp
MinuteKey(timestamp_ms) ==
    LET dt == FromTimestamp(timestamp_ms) IN <<dt.day, dt.hour, dt.minute>>

\* f"{data['symbol']}_{data['minute_key']}"
GcpDocId(sym, minute_key) == <<sym, minute_key>>

GcpDocIds == {GcpDocId(s, MinuteKey(t)) : s \in GcpSymbols, t \in GcpTimestampsMs}

\* the keys of the trade timestamps at the handler's granularity of 1 minute
HandlerKeys == {get_interval_key(1, t) : t \in HandlerTimestampsMs}

\* the processor's lambda_handler before its first invocation: an empty table
HandlerIdle ==
    /\ pc = "idle"
    /\ ohlcv_calculators = [s \in HandlerSymbols |-> None]
    /\ calc_order = <<>>
    /\ stored = <<>>
    /\ s3_puts = <<>>
    /\ table = [sk \in HandlerSymbols \X HandlerKeys |-> None]
    /\ response = None
    /\ batch_size = 0
    /\ invocations = 0
    /\ n_records = 0
    /\ last_record = None
    /\ batch_keys = {}
    /\ ledger = [sk \in HandlerSymbols \X HandlerKeys |-> None]
    /\ h_last_ts = None
    /\ h_ordered = TRUE
    /\ h_raised = FALSE
    /\ raise_cause = "none"
    /\ h_folds = 0

\* no candle has been returned yet
CandleIdle ==
    /\ candle_out = None
    /\ candle_was = None
    /\ since_reset = 0

\* the detector's lambda_handler before its first invocation
AlertIdle ==
    /\ a_pc = "idle"
    /\ db = [s \in DetectorSymbols |-> <<>>]
    /\ scanned = {}
    /\ a_todo = <<>>
    /\ a_pending = <<>>
    /\ all_anomalies = <<>>
    /\ alerts = <<>>
    /\ published = 0
    /\ a_response = None
    /\ a_cause = "none"

\* the GCP processor before its first invocation: an empty collection
GcpIdle ==
    /\ firestore = [id \in GcpDocIds |-> None]
    /\ g_inv = <<>>
    /\ g_started = 0
    /\ g_ledger = [id \in GcpDocIds |-> None]
    /\ g_raced = FALSE
    /\ g_calc = [id \in GcpDocIds |->
                   [symbol |-> id[1], interval_minutes |-> 1,
                    current_interval |-> None, ohlcv_data |-> InitialOhlcv]]

\* the producer before main() constructs it
\* BinanceWebSocketProducer.__init__ with SQS_QUEUE_URL set
ProducerConstructed ==
    /\ running = FALSE
    /\ p_pc = "new"
    /\ retry_count = 0
    /\ attempted = FALSE
    /\ p_reset = FALSE
    /\ received = 0
    /\ senders = <<>>
    /\ queue = <<>>
    /\ after_stop = [active |-> FALSE, handled |-> 0, attempt |-> FALSE]

ProducerIdle ==
    /\ ProducerConstructed
    /\ entry = "main"

ApiIdle ==
    /\ scan_items = <<>>
    /\ api_response = None

\* the detector before its first call, on no history
DetectorIdle ==
    /\ history = <<>>
    /\ det_call = [op |-> "__init__"]
    /\ det_ret = [kind |-> "return", value |-> None]
    /\ det_first = None

Init ==
    /\ symbol = "BTCUSDT"
    /\ interval_minutes \in {1, 2}
    /\ current_interval = None
    /\ ohlcv_data = InitialOhlcv
    /\ call = [op |-> "__init__"]
    /\ ret = [kind |-> "return", value |-> None]
    /\ n_folded = 0
    /\ q_folded = 0
    /\ ordered = TRUE
    /\ last_ts = 0
    /\ closed = 0
    /\ emitted = 0
    /\ ncalls = 0
    /\ HandlerIdle
    /\ CandleIdle
    /\ AlertIdle
    /\ GcpIdle
    /\ ProducerIdle
    /\ ApiIdle
    /\ DetectorIdle

\* process_trade(trade_data), with `now` the wall clock read for a missing 'E'
ProcessTrade(trade_data, now) ==
    /\ ncalls < MaxCalls
    /\ ncalls' = ncalls + 1
    /\ UNCHANGED <<handlerVars, detVars, candleVars, alertVars, gcpVars, prodVars, apiVars>>
    /\ LET E == DictGet(trade_data, "E", Num(now))
           pf == PyFloat(DictGet(trade_data, "p", Num(0)))
           qf == PyFloat(DictGet(trade_data, "q", Num(0)))
           \* the call as the properties below see it: which entries are not
           \* numbers, whether 'E' is there, and whether the call before it
           \* was a get_ohlcv_data that returned a candle
           tags == [op |-> "process_trade",
                    p_bad |-> (trade_data["p"].t = "bad"),
                    q_bad |-> (trade_data["q"].t = "bad"),
                    E |-> trade_data["E"].t,
                    after_candle |-> (call.op = "get_ohlcv_data" /\ ret.value # None)]
       IN
       IF ~pf.ok \/ ~qf.ok \/ E.t # "num"
       THEN \* float() raises ValueError, or timestamp_ms / 1000 raises TypeError
            /\ call' = tags
            /\ ret' = [kind |-> "raise", value |-> None]
            /\ UNCHANGED <<symbol, interval_minutes, current_interval, ohlcv_data,
                           n_folded, q_folded, ordered, last_ts, closed, emitted>>
       ELSE
         LET timestamp_ms == E.v
             price == pf.v
             quantity == qf.v
             interval_key == get_interval_key(interval_minutes, timestamp_ms)
             moved == current_interval # None /\ interval_key # current_interval
             result == IF moved
                       THEN get_ohlcv_data(symbol, current_interval, ohlcv_data)
                       ELSE None
             data1 == IF moved THEN reset_ohlcv ELSE ohlcv_data
             ci1 == IF moved THEN interval_key ELSE current_interval
             ci2 == IF ci1 = None THEN interval_key ELSE ci1
             value == ProcessTradeReturn(result)
             \* history: the key of the accepted trade before this one
             prev_key == IF n_folded = 0 THEN None
                         ELSE get_interval_key(interval_minutes, last_ts)
         IN
            /\ current_interval' = ci2
            /\ ohlcv_data' = UpdateOhlcv(data1, price, quantity)
            /\ call' = [op |-> "process_trade", p_bad |-> tags.p_bad,
                        q_bad |-> tags.q_bad, E |-> tags.E,
                        after_candle |-> tags.after_candle,
                        timestamp_ms |-> timestamp_ms, price |-> price,
                        quantity |-> quantity, interval_key |-> interval_key]
            /\ ret' = [kind |-> "return", value |-> value]
            /\ n_folded' = IF prev_key = interval_key THEN n_folded + 1 ELSE 1
            /\ q_folded' = IF prev_key = interval_key THEN q_folded + quantity ELSE quantity
            /\ ordered' = (ordered /\ (n_folded = 0 \/ timestamp_ms >= last_ts))
            /\ last_ts' = timestamp_ms
            /\ closed' = IF prev_key # None /\ KeyLess(prev_key, interval_key)
                         THEN closed + 1 ELSE closed
            /\ emitted' = IF value # None THEN emitted + 1 ELSE emitted
            /\ UNCHANGED <<symbol, interval_minutes>>

\* get_ohlcv_data() called by the owner of the calculator
GetOhlcvData ==
    /\ ncalls < MaxCalls
    /\ ncalls' = ncalls + 1
    /\ UNCHANGED <<handlerVars, detVars, candleVars, alertVars, gcpVars, prodVars, apiVars>>
    /\ call' = [op |-> "get_ohlcv_data"]
    /\ ret' = [kind |-> "return",
               value |-> get_ohlcv_data(symbol, current_interval, ohlcv_data)]
    /\ UNCHANGED <<symbol, interval_minutes, current_interval, ohlcv_data,
                   n_folded, q_folded, ordered, last_ts, closed, emitted>>

Next ==
    \/ \E p \in PriceEntries, q \in QuantityEntries, e \in TimeEntries :
          \* the wall clock matters only when 'E' is missing
          \E now \in IF e.t = "absent" THEN TimestampsMs ELSE {0} :
             ProcessTrade([p |-> p, q |-> q, E |-> e], now)
    \/ GetOhlcvData

Spec == Init /\ [][Next]_vars

-----------------------------------------------------------------------------
(* get_interval_key over the configured granularities *)

InitKey ==
    /\ symbol = "BTCUSDT"
    /\ interval_minutes \in IntervalMinutes
    /\ current_interval = None
    /\ ohlcv_data = InitialOhlcv
    /\ call = [op |-> "__init__"]
    /\ ret = [kind |-> "return", value |-> None]
    /\ n_folded = 0
    /\ q_folded = 0
    /\ ordered = TRUE
    /\ last_ts = 0
    /\ closed = 0
    /\ emitted = 0
    /\ ncalls = 0
    /\ HandlerIdle
    /\ CandleIdle
    /\ AlertIdle
    /\ GcpIdle
    /\ ProducerIdle
    /\ ApiIdle
    /\ DetectorIdle

GetIntervalKey(timestamp_ms) ==
    /\ call' = [op |-> "get_interval_key", timestamp_ms |-> timestamp_ms]
    /\ ret' = [kind |-> "return",
               value |-> get_interval_key(interval_minutes, timestamp_ms)]
    /\ UNCHANGED <<symbol, interval_minutes, current_interval, ohlcv_data,
                   n_folded, q_folded, ordered, last_ts, closed, emitted, ncalls>>
    /\ UNCHANGED <<handlerVars, detVars, candleVars, alertVars, gcpVars, prodVars, apiVars>>

NextKey == \E t \in KeyTimestampsMs : GetIntervalKey(t)

SpecKey == InitKey /\ [][NextKey]_vars

-----------------------------------------------------------------------------
(* lambda_handler of the processor *)

\* trade_data.get('s', 'UNKNOWN')
SymbolOf(trade_data) == DictGet(trade_data, "s", [t |-> "str", v |-> "UNKNOWN"]).v

CalculatorKey_Shared(sym) == "BTCUSDT"

\* the key under which the handler keeps the calculator of a symbol
CalculatorKey(sym) == sym

\* OHLCVCalculator(symbol): interval_minutes takes its default
NewCalculator(sym) ==
    [symbol |-> sym, interval_minutes |-> 1, current_interval |-> None,
     ohlcv_data |-> InitialOhlcv]

\* calculator.process_trade(trade_data) on the calculator object calc: whether
\* it raised, the calculator afterwards and the value returned
CalcProcessTrade(calc, trade_data, now) ==
    LET E == DictGet(trade_data, "E", Num(now))
        pf == PyFloat(DictGet(trade_data, "p", Num(0)))
        qf == PyFloat(DictGet(trade_data, "q", Num(0)))
    IN
    IF ~pf.ok \/ ~qf.ok \/ E.t # "num"
    THEN [raised |-> TRUE, calc |-> calc, value |-> None, interval_key |-> None]
    ELSE
      LET interval_key == get_interval_key(calc.interval_minutes, E.v)
          moved == calc.current_interval # None /\ interval_key # calc.current_interval
          result == IF moved
                    THEN get_ohlcv_data(calc.symbol, calc.current_interval, calc.ohlcv_data)
                    ELSE None
          data1 == IF moved THEN reset_ohlcv ELSE calc.ohlcv_data
          ci1 == IF moved THEN interval_key ELSE calc.current_interval
          ci2 == IF ci1 = None THEN interval_key ELSE ci1
      IN  [raised |-> FALSE,
           calc |-> [calc EXCEPT !.current_interval = ci2,
                                 !.ohlcv_data = UpdateOhlcv(data1, pf.v, qf.v)],
           value |-> ProcessTradeReturn(result),
           interval_key |-> interval_key]

\* the S3 key store_raw_data_in_s3 builds from the timestamp: its date, hour
\* and minute
S3Key(timestamp_ms) ==
    LET dt == FromTimestamp(timestamp_ms) IN <<dt.day, dt.hour, dt.minute>>

\* table.put_item(Item=item): the item replaces the one with the same
\* symbol and timestamp
PutItem(tbl, candle) == [tbl EXCEPT ![<<candle.symbol, candle.timestamp>>] = candle]

RECURSIVE PutAll(_, _)
PutAll(tbl, candles) ==
    IF candles = <<>> THEN tbl
    ELSE PutAll(PutItem(tbl, Head(candles)), Tail(candles))

\* lines 206-209: the candles of the calculators, in the dict's order, that
\* get_ohlcv_data returns
RECURSIVE Remaining(_, _)
Remaining(calcs, order) ==
    IF order = <<>> THEN <<>>
    ELSE LET c == calcs[Head(order)]
             d == get_ohlcv_data(c.symbol, c.current_interval, c.ohlcv_data)
         IN  (IF d = None THEN <<>> ELSE <<d>>) \o Remaining(calcs, Tail(order))

\* the handler is entered: line 179
Invoke ==
    /\ pc \in {"idle", "done", "raised"}
    /\ invocations < MaxInvocations
    /\ invocations' = invocations + 1
    /\ pc' = "loop"
    /\ ohlcv_calculators' = [s \in HandlerSymbols |-> None]
    /\ calc_order' = <<>>
    /\ stored' = <<>>
    /\ s3_puts' = <<>>
    /\ response' = None
    /\ batch_size' = 0
    /\ last_record' = None
    /\ batch_keys' = {}
    /\ raise_cause' = "none"
    /\ h_folds' = 0
    /\ UNCHANGED <<table, n_records, ledger, h_last_ts, h_ordered, h_raised>>
    /\ UNCHANGED <<calcVars, detVars, candleVars, alertVars, gcpVars, prodVars, apiVars>>

ProcessedMessage_Zero(n) == <<"Processed ", 0, " records">>

\* f'Processed {len(event["Records"])} records'
ProcessedMessage(n) == <<"Processed ", n, " records">>

Raise_Swallowed ==
    /\ pc' = "done"
    /\ response' = [statusCode |-> 200, message |-> ProcessedMessage(batch_size)]
    /\ h_raised' = TRUE

\* the except clause of lines 220-222: the exception leaves the handler
Raise ==
    /\ pc' = "raised"
    /\ response' = None
    /\ h_raised' = TRUE

\* one turn of the loop of lines 182-203 on the next record of the batch;
\* s3_ok: put_object does not raise; now: the wall clock process_trade reads
\* when the trade has no 'E'
HandleRecord(record, s3_ok, now) ==
    /\ pc = "loop"
    /\ n_records < MaxRecords
    /\ n_records' = n_records + 1
    /\ batch_size' = batch_size + 1
    /\ UNCHANGED <<invocations, calcVars, detVars, candleVars, alertVars, gcpVars, prodVars, apiVars>>
    /\ IF ~record.json_ok
       THEN \* json.loads raises
            /\ Raise
            /\ raise_cause' = "json"
            /\ UNCHANGED h_folds
            /\ last_record' = None
            /\ UNCHANGED <<ohlcv_calculators, calc_order, stored, s3_puts, table,
                           batch_keys, ledger, h_last_ts, h_ordered>>
       ELSE
         LET trade_data == record.trade_data
             sym == SymbolOf(trade_data)
             k == CalculatorKey(sym)
             created == ohlcv_calculators[k] = None
             calcs1 == IF created
                       THEN [ohlcv_calculators EXCEPT ![k] = NewCalculator(sym)]
                       ELSE ohlcv_calculators
             e == DictGet(trade_data, "E", Num(0))
             r == CalcProcessTrade(calcs1[k], trade_data, now)
         IN
            /\ last_record' = Some(sym)
            /\ calc_order' = IF created THEN Append(calc_order, k) ELSE calc_order
            /\ IF e.t # "num" \/ ~s3_ok
               THEN \* trade_data.get('E', 0) / 1000 or put_object raises
                    /\ Raise
                    /\ raise_cause' = IF e.t # "num" THEN "timestamp" ELSE "s3"
                    /\ UNCHANGED h_folds
                    /\ ohlcv_calculators' = calcs1
                    /\ UNCHANGED <<stored, s3_puts, table, batch_keys, ledger,
                                   h_last_ts, h_ordered>>
               ELSE
                    /\ s3_puts' = Append(s3_puts, S3Key(e.v))
                    /\ IF r.raised
                       THEN /\ Raise
                            /\ raise_cause' = "fold"
                            /\ UNCHANGED h_folds
                            /\ ohlcv_calculators' = calcs1
                            /\ UNCHANGED <<stored, table, batch_keys, ledger,
                                           h_last_ts, h_ordered>>
                       ELSE
                         LET sk == <<sym, r.interval_key>>
                             price == PyFloat(trade_data["p"]).v
                             quantity == PyFloat(trade_data["q"]).v
                         IN
                            /\ UNCHANGED <<pc, response, h_raised, raise_cause>>
                            /\ h_folds' = h_folds + 1
                            /\ ohlcv_calculators' = [calcs1 EXCEPT ![k] = r.calc]
                            /\ stored' = IF r.value # None
                                         THEN Append(stored, r.value) ELSE stored
                            /\ table' = IF r.value # None
                                        THEN PutItem(table, r.value) ELSE table
                            /\ batch_keys' = batch_keys \cup {sk}
                            /\ ledger' =
                                 [ledger EXCEPT ![sk] =
                                    IF ledger[sk] = None
                                    THEN [open |-> price, volume |-> quantity,
                                          trade_count |-> 1]
                                    ELSE [open |-> ledger[sk].open,
                                          volume |-> ledger[sk].volume + quantity,
                                          trade_count |-> ledger[sk].trade_count + 1]]
                            /\ h_ordered' = (h_ordered /\ (h_last_ts = None \/ e.v >= h_last_ts[1]))
                            /\ h_last_ts' = Some(e.v)

\* lines 206-218: the open intervals are stored and the handler returns;
\* fail_at: which put_item raises, 0 for none
Finish(fail_at) ==
    LET candles == Remaining(ohlcv_calculators, calc_order) IN
    /\ pc = "loop"
    /\ fail_at <= Len(candles)
    /\ IF fail_at = 0
       THEN /\ stored' = stored \o candles
            /\ table' = PutAll(table, candles)
            /\ pc' = "done"
            /\ response' = [statusCode |-> 200, message |-> ProcessedMessage(batch_size)]
            /\ UNCHANGED <<h_raised, raise_cause>>
       ELSE /\ stored' = stored \o SubSeq(candles, 1, fail_at - 1)
            /\ table' = PutAll(table, SubSeq(candles, 1, fail_at - 1))
            /\ Raise
            /\ raise_cause' = "dynamodb"
    /\ UNCHANGED <<ohlcv_calculators, calc_order, s3_puts, batch_size, invocations,
                   n_records, last_record, batch_keys, ledger, h_last_ts, h_ordered,
                   h_folds>>
    /\ UNCHANGED <<calcVars, detVars, candleVars, alertVars, gcpVars, prodVars, apiVars>>

\* the records of a batch: a body that is not JSON, or a trade
Records ==
    {[json_ok |-> FALSE, trade_data |-> None]} \cup
    {[json_ok |-> TRUE, trade_data |-> [s |-> s, p |-> p, q |-> q, E |-> e]] :
        s \in SymbolEntries,
        p \in {Num(x) : x \in HandlerPrices} \cup {Bad},
        q \in {Num(x) : x \in HandlerQuantities},
        e \in {Num(t) : t \in HandlerTimestampsMs}}

InitHandler == Init /\ interval_minutes = 1

NextHandler ==
    \/ Invoke
    \/ \E record \in Records, s3_ok \in BOOLEAN : HandleRecord(record, s3_ok, 0)
    \/ \E fail_at \in 0..Cardinality(HandlerSymbols) : Finish(fail_at)

SpecHandler == InitHandler /\ [][NextHandler]_vars

-----------------------------------------------------------------------------
(* AnomalyDetector *)

\* The numbers the rules compute are kept exact, as fractions num/den of
\* integers: the closes and volumes are drawn from integers, and the
\* quotients the rules compare with their thresholds are compared exactly.
Frac(n, d) == [num |-> n, den |-> d]
FromInt(x) == Frac(x, 1)
Abs(x) == IF x < 0 THEN -x ELSE x

FSub(a, b) == Frac(a.num * b.den - b.num * a.den, a.den * b.den)
FDiv(a, b) == Frac(a.num * b.den, a.den * b.num)
FTimes(a, k) == Frac(a.num * k, a.den)
FAbs(a) == Frac(Abs(a.num), Abs(a.den))
IsZero(a) == a.num = 0
\* a > b for fractions with positive denominators
FGt(a, b) == a.num * b.den > b.num * a.den

RECURSIVE SumSeq(_)
SumSeq(xs) == IF xs = <<>> THEN 0 ELSE Head(xs) + SumSeq(Tail(xs))

\* statistics.mean
mean(xs) == Frac(SumSeq(xs), Len(xs))

\* ohlcv_data[:k]
Prefix(xs, k) == SubSeq(xs, 1, Min(k, Len(xs)))

Closes(xs) == [i \in 1..Len(xs) |-> xs[i].close]
Volumes(xs) == [i \in 1..Len(xs) |-> xs[i].volume]

Returned(v) == [kind |-> "return", value |-> v]
\* ZeroDivisionError, or decimal.DivisionByZero or InvalidOperation on the
\* Decimals of DynamoDB
Raised == [kind |-> "raise", value |-> None]

Exceeds_OrEquals(x, threshold) == ~FGt(FromInt(threshold), x)

\* x > threshold, the test of lines 90, 127 and 169
Exceeds(x, threshold) == FGt(x, FromInt(threshold))

Severity_AlwaysHigh(x, threshold) == "high"

\* "high" if x > threshold * 2 else "medium"
Severity(x, threshold) == IF Exceeds(x, threshold * 2) THEN "high" ELSE "medium"

TooShort_SmaTwenty(candles, needed) ==
    Len(candles) < (IF needed = 25 THEN 20 ELSE needed)

\* len(candles) < needed, the test of lines 77, 112 and 155
TooShort(candles, needed) == Len(candles) < needed

detect_price_anomaly(candles) ==
    IF TooShort(candles, 2) THEN Returned(None)
    ELSE
      LET current == candles[1]
          previous == candles[2]
          current_price == current.close
          previous_price == previous.close
      IN
      IF previous_price = 0 THEN Raised
      ELSE
        LET price_change_pct ==
              FTimes(FDiv(FSub(FromInt(current_price), FromInt(previous_price)),
                          FromInt(previous_price)), 100)
        IN
        IF Exceeds(FAbs(price_change_pct), PRICE_THRESHOLD)
        THEN Returned([type |-> "price_movement",
                       symbol |-> current.symbol,
                       current_price |-> current_price,
                       previous_price |-> previous_price,
                       price_change_pct |-> price_change_pct,
                       threshold |-> PRICE_THRESHOLD,
                       timestamp |-> current.timestamp,
                       severity |-> Severity(FAbs(price_change_pct), PRICE_THRESHOLD)])
        ELSE Returned(None)

RecentVolumes_Eleven(candles) == Volumes(Prefix(candles, 11))

\* line 116
RecentVolumes(candles) == Volumes(Prefix(candles, 10))

detect_volume_anomaly(candles) ==
    IF TooShort(candles, 10) THEN Returned(None)
    ELSE
      LET recent_volumes == RecentVolumes(candles)
          current_volume == recent_volumes[1]
          avg_volume == mean(Tail(recent_volumes))
          volume_ratio == IF avg_volume.num > 0
                          THEN FDiv(FromInt(current_volume), avg_volume)
                          ELSE FromInt(0)
      IN
      IF Exceeds(volume_ratio, VOLUME_THRESHOLD)
      THEN Returned([type |-> "volume_spike",
                     symbol |-> candles[1].symbol,
                     current_volume |-> current_volume,
                     average_volume |-> avg_volume,
                     volume_ratio |-> volume_ratio,
                     threshold |-> VOLUME_THRESHOLD,
                     timestamp |-> candles[1].timestamp,
                     severity |-> Severity(volume_ratio, VOLUME_THRESHOLD)])
      ELSE Returned(None)

calculate_sma_Oldest(candles, period) ==
    IF Len(candles) < period THEN None
    ELSE Some(mean(Closes(SubSeq(candles, Len(candles) - period + 1,
                                 Len(candles)))))

calculate_sma(candles, period) ==
    IF Len(candles) < period THEN None
    ELSE Some(mean(Closes(Prefix(candles, period))))

detect_sma_divergence(candles) ==
    IF TooShort(candles, 25) THEN Returned(None)
    ELSE
      LET current == candles[1]
          current_price == current.close
          short_sma == calculate_sma(candles, 10)
          long_sma == calculate_sma(candles, 20)
      IN
      IF short_sma = None \/ long_sma = None THEN Returned(None)
      ELSE IF IsZero(long_sma[1]) THEN Raised
      ELSE
        LET divergence_pct ==
              FTimes(FDiv(FSub(short_sma[1], long_sma[1]), long_sma[1]), 100)
        IN
        IF Exceeds(FAbs(divergence_pct), SMA_THRESHOLD)
        THEN Returned([type |-> "sma_divergence",
                       symbol |-> current.symbol,
                       current_price |-> current_price,
                       short_sma |-> short_sma[1],
                       long_sma |-> long_sma[1],
                       divergence_pct |-> divergence_pct,
                       threshold |-> SMA_THRESHOLD,
                       timestamp |-> current.timestamp,
                       severity |-> Severity(FAbs(divergence_pct), SMA_THRESHOLD)])
        ELSE Returned(None)

\* lines 189-215, on the items that get_recent_ohlcv_data returned:
\* an exception of a rule leaves detect_anomalies
detect_anomalies(candles) ==
    IF candles = <<>> THEN Returned(<<>>)
    ELSE
      LET price_anomaly == detect_price_anomaly(candles) IN
      IF price_anomaly.kind = "raise" THEN Raised
      ELSE
        LET anomalies1 == IF price_anomaly.value # None
                          THEN <<price_anomaly.value>> ELSE <<>>
            volume_anomaly == detect_volume_anomaly(candles)
        IN
        IF volume_anomaly.kind = "raise" THEN Raised
        ELSE
          LET anomalies2 == IF volume_anomaly.value # None
                            THEN Append(anomalies1, volume_anomaly.value)
                            ELSE anomalies1
              sma_anomaly == detect_sma_divergence(candles)
          IN
          IF sma_anomaly.kind = "raise" THEN Raised
          ELSE Returned(IF sma_anomaly.value # None
                        THEN Append(anomalies2, sma_anomaly.value)
                        ELSE anomalies2)

HistoryAfter_Consumed(candles) ==
    IF candles = <<>> THEN <<>> ELSE Tail(candles)

\* the items after a rule has read them: no rule assigns to the list or to
\* one of its items
HistoryAfter(candles) == candles

\* a history of n candles, most recent first
History(n, cnew, cold, split, vp) ==
    [i \in 1..n |->
        [symbol |-> "BTCUSDT",
         timestamp |-> n - i,
         close |-> IF i <= split THEN cnew ELSE cold,
         volume |-> IF i = 1 THEN vp.v0
                    ELSE IF i <= vp.vsplit THEN vp.vA ELSE vp.vB]]

Histories ==
    {History(n, cnew, cold, split, vp) :
        n \in 0..MaxHistory, cnew \in NewCloses, cold \in OldCloses,
        split \in Splits, vp \in VolumeProfiles}

InitDetector ==
    /\ symbol = "BTCUSDT"
    /\ interval_minutes = 1
    /\ current_interval = None
    /\ ohlcv_data = InitialOhlcv
    /\ call = [op |-> "__init__"]
    /\ ret = [kind |-> "return", value |-> None]
    /\ n_folded = 0
    /\ q_folded = 0
    /\ ordered = TRUE
    /\ last_ts = 0
    /\ closed = 0
    /\ emitted = 0
    /\ ncalls = 0
    /\ HandlerIdle
    /\ CandleIdle
    /\ AlertIdle
    /\ GcpIdle
    /\ ProducerIdle
    /\ ApiIdle
    /\ history \in Histories
    /\ det_call = [op |-> "__init__"]
    /\ det_ret = [kind |-> "return", value |-> None]
    /\ det_first = None

DetectPriceAnomaly ==
    /\ det_call' = [op |-> "detect_price_anomaly"]
    /\ det_ret' = detect_price_anomaly(history)
    /\ history' = HistoryAfter(history)
    /\ UNCHANGED <<det_first, calcVars, handlerVars, candleVars, alertVars, gcpVars, prodVars, apiVars>>

DetectVolumeAnomaly ==
    /\ det_call' = [op |-> "detect_volume_anomaly"]
    /\ det_ret' = detect_volume_anomaly(history)
    /\ history' = HistoryAfter(history)
    /\ UNCHANGED <<det_first, calcVars, handlerVars, candleVars, alertVars, gcpVars, prodVars, apiVars>>

DetectSmaDivergence ==
    /\ det_call' = [op |-> "detect_sma_divergence"]
    /\ det_ret' = detect_sma_divergence(history)
    /\ history' = HistoryAfter(history)
    /\ UNCHANGED <<det_first, calcVars, handlerVars, candleVars, alertVars, gcpVars, prodVars, apiVars>>

DetectAnomalies ==
    /\ det_call' = [op |-> "detect_anomalies", again |-> det_first # None]
    /\ det_ret' = detect_anomalies(history)
    /\ history' = HistoryAfter(history)
    /\ det_first' = IF det_first = None THEN Some(detect_anomalies(history))
                    ELSE det_first
    /\ UNCHANGED <<calcVars, handlerVars, candleVars, alertVars, gcpVars, prodVars, apiVars>>

NextDetector ==
    \/ DetectPriceAnomaly
    \/ DetectVolumeAnomaly
    \/ DetectSmaDivergence
    \/ DetectAnomalies

SpecDetector == InitDetector /\ [][NextDetector]_vars

-----------------------------------------------------------------------------
(* lambda_handler of the detector *)

\* the items of a symbol: those of a history, under that symbol
WithSymbol(candles, sym) ==
    [i \in 1..Len(candles) |-> [candles[i] EXCEPT !.symbol = sym]]

\* the histories the table holds for a symbol: none, a calm one, one on which
\* the volume and SMA rules fire, one on which the price and volume rules
\* fire, and one whose previous close is 0
TableHistories ==
    {<<>>,
     History(2, 100, 100, 1, [v0 |-> 30, vA |-> 10, vB |-> 1000, vsplit |-> 10]),
     History(26, 110, 100, 10, [v0 |-> 61, vA |-> 10, vB |-> 1000, vsplit |-> 10]),
     History(12, 111, 100, 1, [v0 |-> 31, vA |-> 10, vB |-> 1000, vsplit |-> 10]),
     History(2, 100, 0, 1, [v0 |-> 30, vA |-> 10, vB |-> 1000, vsplit |-> 10])}

\* get_recent_ohlcv_data: the items of the query, [] when the query fails
get_recent_ohlcv_data(items, query_ok) == IF query_ok THEN items ELSE <<>>

\* list(set(...)): the scanned symbols in any order
Orders(syms) ==
    {order \in UNION {[1..n -> syms] : n \in 0..Cardinality(syms)} :
        /\ Len(order) = Cardinality(syms)
        /\ \A i, j \in 1..Len(order) : i # j => order[i] # order[j]}

JsonDumpsRaises_Lenient(anomalies) == FALSE

\* json.dumps of the response body raises TypeError when it meets a Decimal:
\* every anomaly record carries the Decimal close or volume of a DynamoDB item
JsonDumpsRaises(anomalies) == anomalies # <<>>

AlertRaise_Logged(cause) ==
    /\ a_pc' = a_pc
    /\ a_response' = a_response
    /\ a_cause' = cause

AlertRaise(cause) ==
    /\ a_pc' = "raised"
    /\ a_response' = None
    /\ a_cause' = cause

\* lines 277-290: the handler is entered and scans the table
AlertInvoke(order, scan_ok) ==
    /\ a_pc = "idle"
    /\ order \in Orders(scanned)
    /\ IF scan_ok
       THEN /\ a_pc' = "symbols"
            /\ a_todo' = order
            /\ UNCHANGED <<a_response, a_cause>>
       ELSE /\ AlertRaise("scan")
            /\ UNCHANGED a_todo
    /\ UNCHANGED <<db, scanned, a_pending, all_anomalies, alerts, published>>
    /\ UNCHANGED <<calcVars, handlerVars, detVars, candleVars, gcpVars, prodVars, apiVars>>

\* lines 293-295: the next symbol is analysed
AnalyseSymbol(query_ok) ==
    /\ a_pc = "symbols"
    /\ a_pending = <<>>
    /\ a_todo # <<>>
    /\ LET anomalies == detect_anomalies(
                            get_recent_ohlcv_data(db[Head(a_todo)], query_ok))
       IN  IF anomalies.kind = "raise"
           THEN /\ AlertRaise("detect")
                /\ UNCHANGED <<a_pending, all_anomalies>>
           ELSE /\ all_anomalies' = all_anomalies \o anomalies.value
                /\ a_pending' = anomalies.value
                /\ UNCHANGED <<a_pc, a_response, a_cause>>
    /\ a_todo' = Tail(a_todo)
    /\ UNCHANGED <<db, scanned, alerts, published>>
    /\ UNCHANGED <<calcVars, handlerVars, detVars, candleVars, gcpVars, prodVars, apiVars>>

SendSnsAlert_SkipsRest(sns_ok) ==
    /\ a_pc = "symbols"
    /\ a_pending # <<>>
    /\ alerts' = Append(alerts, Head(a_pending))
    /\ IF sns_ok
       THEN /\ published' = published + 1
            /\ a_pending' = <<>>
            /\ UNCHANGED <<a_pc, a_response, a_cause>>
       ELSE /\ AlertRaise("sns")
            /\ UNCHANGED <<published, a_pending>>
    /\ UNCHANGED <<db, scanned, a_todo, all_anomalies>>
    /\ UNCHANGED <<calcVars, handlerVars, detVars, candleVars, gcpVars, prodVars, apiVars>>

\* lines 298-299: the next anomaly of the symbol goes to send_sns_alert;
\* sns_ok: publish does not raise
SendSnsAlert(sns_ok) ==
    /\ a_pc = "symbols"
    /\ a_pending # <<>>
    /\ alerts' = Append(alerts, Head(a_pending))
    /\ IF sns_ok
       THEN /\ published' = published + 1
            /\ a_pending' = Tail(a_pending)
            /\ UNCHANGED <<a_pc, a_response, a_cause>>
       ELSE /\ AlertRaise("sns")
            /\ UNCHANGED <<published, a_pending>>
    /\ UNCHANGED <<db, scanned, a_todo, all_anomalies>>
    /\ UNCHANGED <<calcVars, handlerVars, detVars, candleVars, gcpVars, prodVars, apiVars>>

\* lines 301-313: the handler builds its response
AlertReturn ==
    /\ a_pc = "symbols"
    /\ a_pending = <<>>
    /\ a_todo = <<>>
    /\ IF JsonDumpsRaises(all_anomalies)
       THEN AlertRaise("json.dumps")
       ELSE /\ a_pc' = "done"
            /\ a_response' = [statusCode |-> 200,
                              message |-> "Anomaly detection complete",
                              anomalies_found |-> Len(all_anomalies),
                              symbols_analyzed |-> Cardinality(scanned),
                              anomalies |-> all_anomalies]
            /\ UNCHANGED a_cause
    /\ UNCHANGED <<db, scanned, a_todo, a_pending, all_anomalies, alerts, published>>
    /\ UNCHANGED <<calcVars, handlerVars, detVars, candleVars, gcpVars, prodVars, apiVars>>

InitAlert ==
    /\ symbol = "BTCUSDT"
    /\ interval_minutes = 1
    /\ current_interval = None
    /\ ohlcv_data = InitialOhlcv
    /\ call = [op |-> "__init__"]
    /\ ret = [kind |-> "return", value |-> None]
    /\ n_folded = 0
    /\ q_folded = 0
    /\ ordered = TRUE
    /\ last_ts = 0
    /\ closed = 0
    /\ emitted = 0
    /\ ncalls = 0
    /\ HandlerIdle
    /\ DetectorIdle
    /\ CandleIdle
    /\ GcpIdle
    /\ ProducerIdle
    /\ ApiIdle
    /\ a_pc = "idle"
    /\ scanned \in SUBSET DetectorSymbols
    /\ \E hs \in [DetectorSymbols -> TableHistories] :
          db = [s \in DetectorSymbols |-> WithSymbol(hs[s], s)]
    /\ a_todo = <<>>
    /\ a_pending = <<>>
    /\ all_anomalies = <<>>
    /\ alerts = <<>>
    /\ published = 0
    /\ a_response = None
    /\ a_cause = "none"

NextAlert ==
    \/ \E order \in Orders(scanned), scan_ok \in BOOLEAN : AlertInvoke(order, scan_ok)
    \/ \E query_ok \in BOOLEAN : AnalyseSymbol(query_ok)
    \/ \E sns_ok \in BOOLEAN : SendSnsAlert(sns_ok)
    \/ AlertReturn

SpecAlert == InitAlert /\ [][NextAlert]_vars

-----------------------------------------------------------------------------
(* The GCP processor *)

\* process_trade_message: the fields of processed_data the aggregation reads;
\* Decimal(str(...)) raises on a string that is not a number
process_trade_message(trade_data) ==
    LET sym == DictGet(trade_data, "s", [t |-> "str", v |-> "UNKNOWN"]).v
        pf == PyFloat(DictGet(trade_data, "p", Num(0)))
        qf == PyFloat(DictGet(trade_data, "q", Num(0)))
        T == DictGet(trade_data, "T", Num(0))
    IN
    IF ~pf.ok \/ ~qf.ok \/ T.t # "num"
    THEN [raised |-> TRUE]
    ELSE [raised |-> FALSE,
          symbol |-> sym,
          price |-> pf.v,
          quantity |-> qf.v,
          volume |-> pf.v * qf.v,
          timestamp |-> T.v,
          minute_key |-> MinuteKey(T.v)]

\* the document create_ohlcv_data sets (without its wall-clock fields)
create_ohlcv_data(data) ==
    [symbol |-> data.symbol, minute_key |-> data.minute_key,
     open |-> data.price, high |-> data.price, low |-> data.price,
     close |-> data.price, volume |-> data.volume, trade_count |-> 1]

update_ohlcv_data_OpenMoves(existing_data, new_data) ==
    [existing_data EXCEPT !.open = new_data.price,
                          !.high = Max(existing_data.high, new_data.price),
                          !.low = Min(existing_data.low, new_data.price),
                          !.close = new_data.price,
                          !.volume = existing_data.volume + new_data.volume,
                          !.trade_count = existing_data.trade_count + 1]

\* the dict update_ohlcv_data sets: existing_data is the document as read
update_ohlcv_data(existing_data, new_data) ==
    [existing_data EXCEPT !.high = Max(existing_data.high, new_data.price),
                          !.low = Min(existing_data.low, new_data.price),
                          !.close = new_data.price,
                          !.volume = existing_data.volume + new_data.volume,
                          !.trade_count = existing_data.trade_count + 1]

\* doc_ref.set(existing_data, merge=True): every field of the dict replaces
\* the stored one, and the dict has all the fields of a document
SetMerge(document, fields) == fields

GcpOpen(i) == g_inv[i].pc \in {"get", "set"}

\* the trade of an arrival, entered into the book kept per document
Arrived(book, data) ==
    IF book = None
    THEN [trade_count |-> 1, volume |-> data.volume, high |-> data.price,
          low |-> data.price, open |-> data.price, close |-> data.price]
    ELSE [trade_count |-> book.trade_count + 1,
          volume |-> book.volume + data.volume,
          high |-> Max(book.high, data.price),
          low |-> Min(book.low, data.price),
          open |-> book.open,
          close |-> data.price]

\* process_trade_data is invoked on a message: lines 38-50
GcpStart(trade_data) ==
    LET data == process_trade_message(trade_data) IN
    /\ g_started < MaxGcpInvocations
    /\ g_started' = g_started + 1
    /\ g_raced' = (g_raced \/ \E i \in 1..g_started : GcpOpen(i))
    /\ IF data.raised
       THEN /\ g_inv' = Append(g_inv, [pc |-> "raised", data |-> None, existing |-> None])
            /\ UNCHANGED <<g_ledger, g_calc>>
       ELSE /\ g_inv' = Append(g_inv, [pc |-> "get", data |-> data, existing |-> None])
            /\ g_ledger' =
                 [g_ledger EXCEPT ![GcpDocId(data.symbol, data.minute_key)] =
                                      Arrived(@, data)]
            /\ g_calc' =
                 [g_calc EXCEPT ![GcpDocId(data.symbol, data.minute_key)] =
                                    CalcProcessTrade(@, trade_data, 0).calc]
    /\ UNCHANGED firestore
    /\ UNCHANGED <<calcVars, handlerVars, detVars, candleVars, alertVars, prodVars, apiVars>>

\* store_in_firestore, line 120: doc_ref.get()
GcpGet(i) ==
    /\ i \in 1..g_started
    /\ g_inv[i].pc = "get"
    /\ g_inv' = [g_inv EXCEPT ![i].pc = "set",
                              ![i].existing =
                                  firestore[GcpDocId(g_inv[i].data.symbol,
                                                     g_inv[i].data.minute_key)]]
    /\ UNCHANGED <<firestore, g_started, g_ledger, g_raced, g_calc>>
    /\ UNCHANGED <<calcVars, handlerVars, detVars, candleVars, alertVars, prodVars, apiVars>>

\* store_in_firestore, lines 122-128: doc_ref.set() of update_ohlcv_data or
\* of create_ohlcv_data, and the rest of the invocation
GcpSet(i) ==
    /\ i \in 1..g_started
    /\ g_inv[i].pc = "set"
    /\ LET data == g_inv[i].data
           id == GcpDocId(data.symbol, data.minute_key)
       IN  firestore' =
             [firestore EXCEPT ![id] =
                 IF g_inv[i].existing # None
                 THEN SetMerge(@, update_ohlcv_data(g_inv[i].existing, data))
                 ELSE create_ohlcv_data(data)]
    /\ g_inv' = [g_inv EXCEPT ![i].pc = "done"]
    /\ UNCHANGED <<g_started, g_ledger, g_raced, g_calc>>
    /\ UNCHANGED <<calcVars, handlerVars, detVars, candleVars, alertVars, prodVars, apiVars>>

GcpTrades ==
    {[s |-> [t |-> "str", v |-> s], p |-> p, q |-> Num(q), T |-> Num(t), E |-> Num(t)] :
        s \in GcpSymbols, p \in {Num(x) : x \in GcpPrices},
        q \in GcpQuantities, t \in GcpTimestampsMs}
    \cup {[s |-> [t |-> "str", v |-> "BTCUSDT"], p |-> Bad, q |-> Num(2), T |-> Num(0), E |-> Num(0)]}

InitGcp == Init /\ interval_minutes = 1

NextGcp ==
    \/ \E trade_data \in GcpTrades : GcpStart(trade_data)
    \/ \E i \in 1..MaxGcpInvocations : GcpGet(i)
    \/ \E i \in 1..MaxGcpInvocations : GcpSet(i)

SpecGcp == InitGcp /\ [][NextGcp]_vars

-----------------------------------------------------------------------------
(* The producer *)

\* retry_count after connect_websocket returned without an exception (line 153)
RetryCountOnReturn_Kept(count) == count

RetryCountOnReturn(count) == 0

\* one more message or receive timeout handled after stop(), counted up to 2
HandledOne(h) ==
    IF h.active THEN [h EXCEPT !.handled = Min(@ + 1, 2)] ELSE h

\* a caller that embeds the class sets the public attribute running before it
\* calls run(); main() never does (the only assignments in main.py are
\* lines 39 and 141, both of False)
SetRunning ==
    /\ entry = "embedded"
    /\ p_pc = "new"
    /\ ~running
    /\ running' = TRUE
    /\ UNCHANGED <<entry, p_pc, retry_count, attempted, p_reset, received, senders, queue>>
    /\ UNCHANGED <<calcVars, handlerVars, detVars, candleVars, alertVars, gcpVars, apiVars>>
    /\ UNCHANGED after_stop

\* stop(): a call that finds running False changes nothing
Stop ==
    /\ running
    /\ running' = FALSE
    /\ UNCHANGED <<entry, p_pc, retry_count, attempted, p_reset, received, senders, queue>>
    /\ UNCHANGED <<calcVars, handlerVars, detVars, candleVars, alertVars, gcpVars, apiVars>>
    /\ after_stop' = [after_stop EXCEPT !.active = @ \/ p_pc \in {"test", "recv"}]

\* run() is called: lines 145-148
CallRun ==
    /\ p_pc = "new"
    /\ p_pc' = "loop"
    /\ retry_count' = 0
    /\ UNCHANGED <<running, entry, attempted, p_reset, received, senders, queue>>
    /\ UNCHANGED <<calcVars, handlerVars, detVars, candleVars, alertVars, gcpVars, apiVars>>
    /\ UNCHANGED after_stop

\* line 150: while self.running and retry_count < max_retries, and the call
\* of connect_websocket of line 152
LoopTest ==
    /\ p_pc = "loop"
    /\ IF running /\ retry_count < max_retries
       THEN p_pc' = "connecting" /\ attempted' = TRUE
       ELSE p_pc' = "returned" /\ UNCHANGED attempted
    /\ UNCHANGED <<running, entry, retry_count, p_reset, received, senders, queue>>
    /\ UNCHANGED <<calcVars, handlerVars, detVars, candleVars, alertVars, gcpVars, apiVars>>
    /\ after_stop' = [after_stop EXCEPT !.attempt = @ \/ (after_stop.active /\ p_pc' = "connecting")]

\* websockets.connect (lines 56-62) opens the connection
ConnectSucceeds ==
    /\ p_pc = "connecting"
    /\ p_pc' = "test"
    /\ UNCHANGED <<running, entry, retry_count, attempted, p_reset, received, senders, queue>>
    /\ UNCHANGED <<calcVars, handlerVars, detVars, candleVars, alertVars, gcpVars, apiVars>>
    /\ UNCHANGED after_stop

\* websockets.connect raises (lines 80-91), run() counts the failure
\* (lines 154-160)
ConnectFails ==
    /\ p_pc = "connecting"
    /\ retry_count' = retry_count + 1
    /\ p_pc' = IF retry_count' >= max_retries THEN "returned" ELSE "sleeping"
    /\ UNCHANGED <<running, entry, attempted, p_reset, received, senders, queue>>
    /\ UNCHANGED <<calcVars, handlerVars, detVars, candleVars, alertVars, gcpVars, apiVars>>
    /\ UNCHANGED after_stop

\* connect_websocket returns without an exception: line 153
ConnectReturns ==
    /\ p_pc' = "loop"
    /\ retry_count' = RetryCountOnReturn(retry_count)
    /\ p_reset' = (p_reset \/ retry_count > 0)

\* line 65: while self.running
KeepsReceiving_Always(is_running) == TRUE

KeepsReceiving(is_running) == is_running

WhileRunning ==
    /\ p_pc = "test"
    /\ IF KeepsReceiving(running)
       THEN p_pc' = "recv" /\ UNCHANGED <<retry_count, p_reset>>
       ELSE ConnectReturns
    /\ UNCHANGED <<running, entry, attempted, received, senders, queue>>
    /\ UNCHANGED <<calcVars, handlerVars, detVars, candleVars, alertVars, gcpVars, apiVars>>
    /\ UNCHANGED after_stop

\* send_to_sqs (lines 114-136): a thread is started for the message
send_to_sqs(threads) == Append(threads, "started")

\* a message arrives (line 68) and process_message handles it (lines 93-112):
\* one that is not JSON is logged, the others go to send_to_sqs
Receive(is_json) ==
    /\ p_pc = "recv"
    /\ received < MaxMessages
    /\ received' = received + 1
    /\ senders' = IF is_json THEN send_to_sqs(senders) ELSE Append(senders, "none")
    /\ p_pc' = "test"
    /\ UNCHANGED <<running, entry, retry_count, attempted, p_reset, queue>>
    /\ UNCHANGED <<calcVars, handlerVars, detVars, candleVars, alertVars, gcpVars, apiVars>>
    /\ after_stop' = HandledOne(after_stop)

\* lines 73-75: no message within 30 seconds
RecvTimeout ==
    /\ p_pc = "recv"
    /\ p_pc' = "test"
    /\ UNCHANGED <<running, entry, retry_count, attempted, p_reset, received, senders, queue>>
    /\ UNCHANGED <<calcVars, handlerVars, detVars, candleVars, alertVars, gcpVars, apiVars>>
    /\ after_stop' = HandledOne(after_stop)

\* lines 76-78: the connection is closed, the loop is left
ConnectionClosed ==
    /\ p_pc = "recv"
    /\ ConnectReturns
    /\ UNCHANGED <<running, entry, attempted, received, senders, queue>>
    /\ UNCHANGED <<calcVars, handlerVars, detVars, candleVars, alertVars, gcpVars, apiVars>>
    /\ UNCHANGED after_stop

\* line 160: asyncio.sleep(5) is over
Wake ==
    /\ p_pc = "sleeping"
    /\ p_pc' = "loop"
    /\ UNCHANGED <<running, entry, retry_count, attempted, p_reset, received, senders, queue>>
    /\ UNCHANGED <<calcVars, handlerVars, detVars, candleVars, alertVars, gcpVars, apiVars>>
    /\ UNCHANGED after_stop

\* _send (lines 117-132) in the thread of message i: send_message, whose
\* errors are logged
Send(i, sqs_ok) ==
    /\ i \in 1..received
    /\ senders[i] = "started"
    /\ IF sqs_ok
       THEN queue' = Append(queue, i) /\ senders' = [senders EXCEPT ![i] = "sent"]
       ELSE UNCHANGED queue /\ senders' = [senders EXCEPT ![i] = "failed"]
    /\ UNCHANGED <<running, entry, p_pc, retry_count, attempted, p_reset, received>>
    /\ UNCHANGED <<calcVars, handlerVars, detVars, candleVars, alertVars, gcpVars, apiVars>>
    /\ UNCHANGED after_stop

InitProducer ==
    /\ symbol = "BTCUSDT"
    /\ interval_minutes = 1
    /\ current_interval = None
    /\ ohlcv_data = InitialOhlcv
    /\ call = [op |-> "__init__"]
    /\ ret = [kind |-> "return", value |-> None]
    /\ n_folded = 0
    /\ q_folded = 0
    /\ ordered = TRUE
    /\ last_ts = 0
    /\ closed = 0
    /\ emitted = 0
    /\ ncalls = 0
    /\ HandlerIdle
    /\ DetectorIdle
    /\ CandleIdle
    /\ AlertIdle
    /\ GcpIdle
    /\ ProducerConstructed
    /\ entry \in {"main", "embedded"}
    /\ ApiIdle

\* the steps of run() and of the connect_websocket it awaits
RunStep ==
    \/ CallRun
    \/ LoopTest
    \/ ConnectSucceeds
    \/ ConnectFails
    \/ WhileRunning
    \/ \E is_json \in BOOLEAN : Receive(is_json)
    \/ RecvTimeout
    \/ ConnectionClosed
    \/ Wake

\* the steps of the sender threads
SenderStep == \E i \in 1..MaxMessages, sqs_ok \in BOOLEAN : Send(i, sqs_ok)

NextProducer ==
    \/ SetRunning
    \/ Stop
    \/ RunStep
    \/ SenderStep

SpecProducer == InitProducer /\ [][NextProducer]_vars

\* every await of run() ends (the connection attempt and the receive have
\* timeouts, the sleep is 5 seconds) and every started thread is scheduled
SpecProducerLive == SpecProducer /\ WF_vars(RunStep) /\ WF_vars(SenderStep)

-----------------------------------------------------------------------------
(* The API handler: get_latest_ohlcv_data *)

\* item.get(key): None when the item has no such attribute, Some(s) for the
\* symbol s
ItemGet(item, key) == item[key]

\* `symbol and timestamp`: both present (the table's key attributes are
\* never empty strings)
HasBoth(sym, timestamp) == sym # None /\ timestamp # None

\* timestamp > latest_data[symbol]['timestamp'] on the strings the processor
\* stores
Later_Earlier(timestamp, kept) == KeyLess(timestamp, kept)

Later(timestamp, kept) == KeyLess(kept, timestamp)

\* where a symbol sits in latest_data (a dict keeps insertion order), 0 if
\* it has no entry
IndexOf(latest_data, sym) ==
    IF \E i \in 1..Len(latest_data) : latest_data[i].symbol = sym
    THEN CHOOSE i \in 1..Len(latest_data) : latest_data[i].symbol = sym
    ELSE 0

\* one turn of the loop of lines 85-91
LatestStep(latest_data, item) ==
    LET sym == ItemGet(item, "symbol")
        timestamp == ItemGet(item, "timestamp")
        i == IndexOf(latest_data, sym)
    IN
    IF ~HasBoth(sym, timestamp) THEN latest_data
    ELSE IF i = 0 THEN Append(latest_data, item)
    ELSE IF Later(timestamp, latest_data[i].timestamp)
         THEN [latest_data EXCEPT ![i] = item]
    ELSE latest_data

RECURSIVE LatestData(_)
\* latest_data after the loop over the scanned items
LatestData(scanned_items) ==
    IF scanned_items = <<>> THEN <<>>
    ELSE LatestStep(LatestData(SubSeq(scanned_items, 1, Len(scanned_items) - 1)),
                    scanned_items[Len(scanned_items)])

\* get_latest_ohlcv_data: the response, with the body before json.dumps;
\* scan_ok: table.scan does not raise
get_latest_ohlcv_data(scanned_items, scan_ok) ==
    IF scan_ok
    THEN [statusCode |-> 200, body |-> LatestData(scanned_items)]
    ELSE [statusCode |-> 500, body |-> <<>>]

\* the items a scan can return: the table's key is (symbol, timestamp), so
\* no two complete items share both
ApiItems ==
    {[symbol |-> s, timestamp |-> t] :
        s \in {None} \cup {Some(d) : d \in DetectorSymbols},
        t \in {None} \cup ApiTimestamps}

RECURSIVE ScansOfLen(_)
ScansOfLen(n) ==
    IF n = 0 THEN {<<>>}
    ELSE {Append(scan, item) : scan \in ScansOfLen(n - 1), item \in ApiItems}

DistinctKeys(scan) ==
    \A i, j \in 1..Len(scan) :
       (i # j /\ HasBoth(scan[i].symbol, scan[i].timestamp)) => scan[i] # scan[j]

Scans == {scan \in UNION {ScansOfLen(n) : n \in 0..MaxItems} : DistinctKeys(scan)}

\* the request for /crypto/latest-ohlcv is served
GetLatestOhlcvData(scan_ok) ==
    /\ api_response = None
    /\ api_response' = get_latest_ohlcv_data(scan_items, scan_ok)
    /\ UNCHANGED scan_items
    /\ UNCHANGED <<calcVars, handlerVars, detVars, candleVars, alertVars, gcpVars, prodVars>>

InitApi ==
    /\ symbol = "BTCUSDT"
    /\ interval_minutes = 1
    /\ current_interval = None
    /\ ohlcv_data = InitialOhlcv
    /\ call = [op |-> "__init__"]
    /\ ret = [kind |-> "return", value |-> None]
    /\ n_folded = 0
    /\ q_folded = 0
    /\ ordered = TRUE
    /\ last_ts = 0
    /\ closed = 0
    /\ emitted = 0
    /\ ncalls = 0
    /\ HandlerIdle
    /\ DetectorIdle
    /\ CandleIdle
    /\ AlertIdle
    /\ GcpIdle
    /\ ProducerIdle
    /\ scan_items \in Scans
    /\ api_response = None

NextApi == \E scan_ok \in BOOLEAN : GetLatestOhlcvData(scan_ok)

SpecApi == InitApi /\ [][NextApi]_vars

-----------------------------------------------------------------------------
(* A candle in the hands of the calculator's caller *)

CandleTrades ==
    {[p |-> Num(p), q |-> Num(1), E |-> Num(t)] :
        p \in Prices, t \in HandlerTimestampsMs}

CandleAfter_Aliased(returned, data) ==
    IF returned = None \/ data.open = None THEN returned
    ELSE [returned EXCEPT !.open = data.open[1], !.high = data.high[1],
                          !.low = data.low[1], !.close = data.close[1],
                          !.volume = data.volume,
                          !.trade_count = data.trade_count]

\* the dict get_ohlcv_data returned, after the calculator's ohlcv_data has
\* become data: the dict display of lines 98-107 builds an object of its own
\* out of floats, an int and strings, which no write to self.ohlcv_data reaches
CandleAfter(returned, data) == returned

CandleProcessTrade(trade_data) ==
    LET calc == [symbol |-> symbol, interval_minutes |-> interval_minutes,
                 current_interval |-> current_interval, ohlcv_data |-> ohlcv_data]
        r == CalcProcessTrade(calc, trade_data, 0)
        moved == current_interval # None /\ r.interval_key # current_interval
    IN
    /\ ncalls < MaxCalls
    /\ ncalls' = ncalls + 1
    /\ call' = [op |-> "process_trade"]
    /\ ret' = [kind |-> IF r.raised THEN "raise" ELSE "return", value |-> r.value]
    /\ current_interval' = r.calc.current_interval
    /\ ohlcv_data' = r.calc.ohlcv_data
    /\ since_reset' = IF r.raised THEN since_reset
                      ELSE IF moved THEN 1 ELSE since_reset + 1
    /\ candle_out' = CandleAfter(candle_out, r.calc.ohlcv_data)
    /\ UNCHANGED <<candle_was, symbol, interval_minutes,
                   n_folded, q_folded, ordered, last_ts, closed, emitted>>
    /\ UNCHANGED <<handlerVars, detVars, alertVars, gcpVars, prodVars, apiVars>>

CandleGetOhlcvData ==
    LET value == get_ohlcv_data(symbol, current_interval, ohlcv_data) IN
    /\ ncalls < MaxCalls
    /\ ncalls' = ncalls + 1
    /\ call' = [op |-> "get_ohlcv_data"]
    /\ ret' = [kind |-> "return", value |-> value]
    /\ candle_out' = value
    /\ candle_was' = value
    /\ UNCHANGED <<since_reset, symbol, interval_minutes, current_interval, ohlcv_data,
                   n_folded, q_folded, ordered, last_ts, closed, emitted>>
    /\ UNCHANGED <<handlerVars, detVars, alertVars, gcpVars, prodVars, apiVars>>

\* reset_ohlcv() called by the owner of the calculator
CandleResetOhlcv ==
    /\ ncalls < MaxCalls
    /\ ncalls' = ncalls + 1
    /\ call' = [op |-> "reset_ohlcv"]
    /\ ret' = [kind |-> "return", value |-> None]
    /\ ohlcv_data' = reset_ohlcv
    /\ since_reset' = 0
    /\ candle_out' = CandleAfter(candle_out, reset_ohlcv)
    /\ UNCHANGED <<candle_was, symbol, interval_minutes, current_interval,
                   n_folded, q_folded, ordered, last_ts, closed, emitted>>
    /\ UNCHANGED <<handlerVars, detVars, alertVars, gcpVars, prodVars, apiVars>>

InitCandle == Init /\ interval_minutes = 1

NextCandle ==
    \/ \E trade_data \in CandleTrades : CandleProcessTrade(trade_data)
    \/ CandleGetOhlcvData
    \/ CandleResetOhlcv

SpecCandle == InitCandle /\ [][NextCandle]_vars

-----------------------------------------------------------------------------
(* Properties of OHLCVCalculator *)

\* the last call was a process_trade that ran to its return statement
Accepted == call.op = "process_trade" /\ ret.kind = "return"

\* the aggregate that describes one trade alone
Alone(price, quantity) ==
    [open |-> Some(price), high |-> Some(price), low |-> Some(price),
     close |-> Some(price), volume |-> quantity, trade_count |-> 1]

\* the candle of the open interval
OpenCandle ==
    [symbol |-> symbol, timestamp |-> current_interval,
     open |-> ohlcv_data.open[1], high |-> ohlcv_data.high[1],
     low |-> ohlcv_data.low[1], close |-> ohlcv_data.close[1],
     volume |-> ohlcv_data.volume, trade_count |-> ohlcv_data.trade_count]

\* C1: a process_trade call whose trade (carrying its event time) is keyed
\* later than the open interval returns the candle of the interval it closes,
\* so that on a time-ordered stream the number of candles returned equals the
\* number of intervals closed.
C1_RolloverReturnsCandle ==
    [][(/\ call'.op = "process_trade"
        /\ ret'.kind = "return"
        /\ call'.E = "num"
        /\ current_interval # None
        /\ KeyLess(current_interval, call'.interval_key))
       => /\ ret'.value = OpenCandle
          /\ (ordered' => emitted' = closed')]_vars

\* C2: a well-formed trade whose event time is keyed earlier than the open
\* interval leaves current_interval and every field of ohlcv_data as they were.
C2_LateTradeRejected ==
    [][(/\ call'.op = "process_trade"
        /\ ~call'.p_bad /\ ~call'.q_bad /\ call'.E = "num"
        /\ current_interval # None
        /\ KeyLess(call'.interval_key, current_interval))
       => /\ current_interval' = current_interval
          /\ ohlcv_data' = ohlcv_data]_vars

\* C3: with prices >= 0, the aggregate in progress and every candle that
\* get_ohlcv_data materializes satisfy low <= open <= high and low <= close <= high.
C3_LowOpenCloseHigh ==
    /\ ohlcv_data.open # None =>
          /\ ohlcv_data.low[1] <= ohlcv_data.open[1]
          /\ ohlcv_data.open[1] <= ohlcv_data.high[1]
          /\ ohlcv_data.low[1] <= ohlcv_data.close[1]
          /\ ohlcv_data.close[1] <= ohlcv_data.high[1]
    /\ (call.op = "get_ohlcv_data" /\ ret.value # None) =>
          /\ ret.value.low <= ret.value.open
          /\ ret.value.open <= ret.value.high
          /\ ret.value.low <= ret.value.close
          /\ ret.value.close <= ret.value.high

\* C4: on a time-ordered stream the open interval's trade_count is the number
\* of trades accepted with its key since it was opened, and its volume is the
\* sum of their quantities.
C4_CountAndVolume ==
    (ordered /\ current_interval # None) =>
        /\ ohlcv_data.trade_count = n_folded
        /\ ohlcv_data.volume = q_folded

C4_Witness ==
    /\ Accepted
    /\ ordered
    /\ closed >= 1
    /\ n_folded = 2
    /\ q_folded = 3

\* C5: with no interval open, process_trade opens the interval of the trade's
\* key, seeds open = high = low = close = price, volume = quantity,
\* trade_count = 1, and returns nothing.
C5_FirstTradeSeeds ==
    [][(/\ call'.op = "process_trade"
        /\ ret'.kind = "return"
        /\ current_interval = None)
       => /\ current_interval' = call'.interval_key
          /\ ohlcv_data' = Alone(call'.price, call'.quantity)
          /\ ret'.value = None]_vars

C5_Witness ==
    /\ Accepted
    /\ ncalls = 1
    /\ call.price = 2
    /\ call.quantity = 1
    /\ current_interval # None

\* C6: a trade with the open interval's key leaves current_interval and open
\* unchanged, sets high = max(high, price), low = min(low, price),
\* close = price, adds quantity to volume and 1 to trade_count, for every
\* previous state and every price >= 0, and returns nothing.
C6_SameKeyFolds ==
    [][(/\ call'.op = "process_trade"
        /\ ret'.kind = "return"
        /\ current_interval # None
        /\ call'.interval_key = current_interval)
       => /\ current_interval' = current_interval
          /\ ohlcv_data'.open = ohlcv_data.open
          /\ ohlcv_data'.high = Some(Max(ohlcv_data.high[1], call'.price))
          /\ ohlcv_data'.low = Some(Min(ohlcv_data.low[1], call'.price))
          /\ ohlcv_data'.close = Some(call'.price)
          /\ ohlcv_data'.volume = ohlcv_data.volume + call'.quantity
          /\ ohlcv_data'.trade_count = ohlcv_data.trade_count + 1
          /\ ret'.value = None]_vars

\* C7: after a trade that starts a new interval while an earlier one was open,
\* the aggregate describes that trade alone under the new key.
C7_NewIntervalAlone ==
    [][(/\ call'.op = "process_trade"
        /\ ret'.kind = "return"
        /\ current_interval # None
        /\ call'.interval_key # current_interval)
       => /\ current_interval' = call'.interval_key
          /\ ohlcv_data' = Alone(call'.price, call'.quantity)]_vars

C7_Witness ==
    /\ Accepted
    /\ closed = 1
    /\ ncalls = 3
    /\ n_folded = 1
    /\ current_interval = call.interval_key

\* C8 as stated: once get_ohlcv_data has materialized the open interval, the
\* next process_trade leaves an aggregate that holds that trade alone, also
\* when the trade has the key of the materialized interval.
C8_FreshAfterFlush ==
    [][(/\ call.op = "get_ohlcv_data"
        /\ ret.value # None
        /\ call'.op = "process_trade"
        /\ ret'.kind = "return")
       => ohlcv_data' = Alone(call'.price, call'.quantity)]_vars

\* C8 amended: once get_ohlcv_data has materialized the open interval, the
\* next process_trade leaves an aggregate that holds that trade alone exactly
\* when its key differs from the materialized one; a trade with the same key
\* is folded into the materialized aggregate (same open, the candle's volume
\* plus its quantity, the candle's trade_count plus one).
C8_FlushKeepsAggregate ==
    [][(/\ call.op = "get_ohlcv_data"
        /\ ret.value # None
        /\ call'.op = "process_trade"
        /\ ret'.kind = "return")
       => IF call'.interval_key # ret.value.timestamp
          THEN /\ ohlcv_data' = Alone(call'.price, call'.quantity)
               /\ current_interval' = call'.interval_key
          ELSE /\ current_interval' = ret.value.timestamp
               /\ ohlcv_data'.open = Some(ret.value.open)
               /\ ohlcv_data'.close = Some(call'.price)
               /\ ohlcv_data'.volume = ret.value.volume + call'.quantity
               /\ ohlcv_data'.trade_count = ret.value.trade_count + 1]_vars

C8_Witness ==
    /\ Accepted
    /\ call.after_candle
    /\ call.interval_key = current_interval
    /\ ohlcv_data.trade_count = 2
    /\ ohlcv_data.open # ohlcv_data.close

\* C9 as stated: a trade with a non-numeric price or quantity, or without an
\* event timestamp, leaves current_interval and ohlcv_data unchanged.
C9_MalformedRejected ==
    [][(/\ call'.op = "process_trade"
        /\ (call'.p_bad \/ call'.q_bad \/ call'.E = "absent"))
       => /\ current_interval' = current_interval
          /\ ohlcv_data' = ohlcv_data]_vars

\* C9 amended: a trade whose price or quantity float() cannot convert, or
\* whose 'E' is present but not a number, makes process_trade raise with
\* current_interval and ohlcv_data unchanged; a trade that only lacks 'E' is
\* not rejected but accepted as a trade of the current wall-clock time (it is
\* folded into the open interval when the clock's key is that interval's, and
\* starts an interval of its own otherwise).
C9_UnparsableRejected ==
    [][(call'.op = "process_trade")
       => /\ (call'.p_bad \/ call'.q_bad \/ call'.E = "bad")
             => /\ ret'.kind = "raise"
                /\ current_interval' = current_interval
                /\ ohlcv_data' = ohlcv_data
          /\ (~call'.p_bad /\ ~call'.q_bad /\ call'.E = "absent")
             => /\ ret'.kind = "return"
                /\ current_interval' = call'.interval_key
                /\ ohlcv_data'.close = Some(call'.price)
                /\ ohlcv_data'.trade_count =
                      IF call'.interval_key = current_interval
                      THEN ohlcv_data.trade_count + 1 ELSE 1]_vars

C9_Witness ==
    /\ call.op = "process_trade"
    /\ call.p_bad
    /\ ret.kind = "raise"
    /\ ohlcv_data.trade_count = 2

-----------------------------------------------------------------------------
(* Properties of get_interval_key *)

\* the first millisecond of the minute an interval key names
KeyStartMs(k) == ((k[1] * 24 + k[2]) * 60 + k[3]) * 60000

\* C10: for every interval_minutes the keys cut time into buckets that each
\* last interval_minutes minutes: a timestamp lies in the bucket that starts
\* at its key, two timestamps have the same key exactly when they lie in the
\* same bucket, and a later timestamp never has an earlier key; 12:30:45 at
\* granularity 1 has the key of 12:30:00.
C10_KeyBuckets ==
    /\ get_interval_key(1, ((12 * 60 + 30) * 60 + 45) * 1000) = <<0, 12, 30>>
    /\ call.op = "get_interval_key" =>
          LET t == call.timestamp_ms
              k == ret.value
              start == KeyStartMs(k)
              width == interval_minutes * 60000
          IN  /\ start <= t
              /\ t < start + width
              /\ get_interval_key(interval_minutes, start + width - 1) = k
              /\ get_interval_key(interval_minutes, start + width) # k
              /\ \A t2 \in KeyTimestampsMs :
                    LET k2 == get_interval_key(interval_minutes, t2) IN
                    /\ (k2 = k) <=> (start <= t2 /\ t2 < start + width)
                    /\ t <= t2 => ~KeyLess(k2, k)

-----------------------------------------------------------------------------
(* Properties of the processor's lambda_handler *)

\* the candles this invocation handed to store_ohlcv_in_dynamodb for the
\* interval sk = <<symbol, key>>
StoredFor(sk) ==
    {i \in 1..Len(stored) : stored[i].symbol = sk[1] /\ stored[i].timestamp = sk[2]}

\* C11: when the handler has returned from a batch of valid trades in time
\* order, every (symbol, interval) a trade of the batch fell into has had its
\* candle handed to store_ohlcv_in_dynamodb exactly once, the intervals that
\* a later trade of the batch closed included.
C11_EveryIntervalStoredOnce ==
    (pc = "done" /\ h_ordered) =>
        \A sk \in batch_keys : Cardinality(StoredFor(sk)) = 1

\* C12: on a time-ordered stream with no invocation failing, whatever candle
\* an invocation stores for a
\* (symbol, interval) aggregates all the trades of that interval so far, those
\* of earlier invocations included: their count, their volume, and the price
\* of the first as open.
C12_StatePersistsAcrossInvocations ==
    (h_ordered /\ ~h_raised) =>
        \A i \in 1..Len(stored) :
           LET sk == <<stored[i].symbol, stored[i].timestamp>> IN
              /\ table[sk].trade_count = ledger[sk].trade_count
              /\ table[sk].volume = ledger[sk].volume
              /\ table[sk].open = ledger[sk].open

\* C13: a turn of the loop on a record of one symbol leaves the calculator of
\* every other symbol as it was.
C13_SymbolsShareNoState ==
    [][\A b \in HandlerSymbols :
          (pc = "loop" /\ n_records' = n_records + 1 /\ last_record' # None
             /\ b # last_record'[1])
          => ohlcv_calculators'[b] = ohlcv_calculators[b]]_vars

\* a record without 's' has just been folded while BTCUSDT has two trades open
C13_Witness ==
    /\ pc = "loop"
    /\ last_record = Some("UNKNOWN")
    /\ ohlcv_calculators["UNKNOWN"] # None
    /\ ohlcv_calculators["BTCUSDT"] # None
    /\ ohlcv_calculators["UNKNOWN"].ohlcv_data.trade_count = 1
    /\ ohlcv_calculators["BTCUSDT"].ohlcv_data.trade_count = 2

-----------------------------------------------------------------------------
(* Properties of AnomalyDetector *)

\* the close and the volume of the candle at index i (from 0) of the history
CloseAt(i) == history[i + 1].close
VolumeAt(i) == history[i + 1].volume

\* the sums of the closes and of the volumes at indexes lo..hi
RECURSIVE SumCloseAt(_, _)
SumCloseAt(lo, hi) == IF lo > hi THEN 0 ELSE CloseAt(lo) + SumCloseAt(lo + 1, hi)
RECURSIVE SumVolumeAt(_, _)
SumVolumeAt(lo, hi) == IF lo > hi THEN 0 ELSE VolumeAt(lo) + SumVolumeAt(lo + 1, hi)

Fired == det_ret.kind = "return" /\ det_ret.value # None

\* C14: on at least 2 candles with a positive previous close,
\* detect_price_anomaly returns a record exactly when
\* |(close[0] - close[1]) / close[1] * 100| > price_threshold, with severity
\* high exactly when it is > 2 * price_threshold and medium otherwise.
C14_PriceRule ==
    (det_call.op = "detect_price_anomaly" /\ Len(history) >= 2 /\ CloseAt(1) > 0) =>
        LET change == Abs(CloseAt(0) - CloseAt(1)) * 100 IN
        /\ det_ret.kind = "return"
        /\ Fired <=> change > PRICE_THRESHOLD * CloseAt(1)
        /\ Fired => det_ret.value.severity =
                       IF change > 2 * PRICE_THRESHOLD * CloseAt(1)
                       THEN "high" ELSE "medium"

\* closes [100, 110]: the rule has fired with a change of -9.09% and medium
C14_Witness ==
    /\ det_call.op = "detect_price_anomaly"
    /\ Len(history) >= 2 /\ CloseAt(0) = 100 /\ CloseAt(1) = 110
    /\ Fired
    /\ det_ret.value.severity = "medium"
    /\ LET pct == det_ret.value.price_change_pct IN
          pct.den > 0 /\ -910 * pct.den < pct.num * 100 /\ pct.num * 100 < -909 * pct.den

\* C15: on at least 10 candles detect_volume_anomaly compares volume[0] with
\* the mean of the nine volumes at indexes 1..9 and nothing else: it returns a
\* record exactly when that mean is positive and volume[0] / mean >
\* volume_threshold, with severity high exactly when the ratio is
\* > 2 * volume_threshold; with a mean of 0 it returns nothing.
C15_VolumeRule ==
    (det_call.op = "detect_volume_anomaly" /\ Len(history) >= 10) =>
        LET nine == SumVolumeAt(1, 9) IN
        /\ det_ret.kind = "return"
        /\ Fired <=> (nine > 0 /\ VolumeAt(0) * 9 > VOLUME_THRESHOLD * nine)
        /\ Fired => det_ret.value.severity =
                       IF VolumeAt(0) * 9 > 2 * VOLUME_THRESHOLD * nine
                       THEN "high" ELSE "medium"
        /\ Fired => det_ret.value.average_volume.num * 9 =
                       nine * det_ret.value.average_volume.den

\* volume 31 against nine volumes of 10 has fired as medium although the
\* candle at index 10 has volume 1000
C15_Witness ==
    /\ det_call.op = "detect_volume_anomaly"
    /\ Len(history) >= 11
    /\ VolumeAt(0) = 31 /\ SumVolumeAt(1, 9) = 90 /\ VolumeAt(10) = 1000
    /\ Fired
    /\ det_ret.value.severity = "medium"

\* C16: on at least 25 candles whose long SMA is not 0, detect_sma_divergence
\* takes the mean of the closes at indexes 0..9 as short SMA and of those at
\* indexes 0..19 as long SMA and returns a record exactly when
\* |(short - long) / long * 100| > sma_threshold, with severity high exactly
\* when it is > 2 * sma_threshold; on 24 or fewer candles it returns nothing.
C16_SmaRule ==
    /\ (det_call.op = "detect_sma_divergence" /\ Len(history) >= 25
          /\ SumCloseAt(0, 19) # 0) =>
          LET ten == SumCloseAt(0, 9)
              twenty == SumCloseAt(0, 19)
              divergence == Abs(2 * ten - twenty) * 100
          IN
          /\ det_ret.kind = "return"
          /\ Fired <=> divergence > SMA_THRESHOLD * Abs(twenty)
          /\ Fired => /\ det_ret.value.severity =
                            IF divergence > 2 * SMA_THRESHOLD * Abs(twenty)
                            THEN "high" ELSE "medium"
                      /\ det_ret.value.short_sma.num * 10 =
                            ten * det_ret.value.short_sma.den
                      /\ det_ret.value.long_sma.num * 20 =
                            twenty * det_ret.value.long_sma.den
    /\ (det_call.op = "detect_sma_divergence" /\ Len(history) <= 24) => ~Fired

\* ten closes of 110 before closes of 100, 25 candles: fired as high
C16_Witness ==
    /\ det_call.op = "detect_sma_divergence"
    /\ Len(history) = 25
    /\ SumCloseAt(0, 9) = 1100 /\ SumCloseAt(0, 19) = 2100
    /\ Fired
    /\ det_ret.value.severity = "high"

\* C17: no rule raises on a degenerate denominator: each of the three rules
\* returns a value on every history.
C17_NoRuleRaises ==
    det_call.op \in {"detect_price_anomaly", "detect_volume_anomaly",
                     "detect_sma_divergence"}
    => det_ret.kind = "return"

\* C18: on a history too short for it each rule returns nothing, without
\* raising: fewer than 2 candles for the price rule, than 10 for the volume
\* rule, than 25 for the SMA rule; detect_anomalies returns an empty list on
\* an empty history.
C18_WarmUp ==
    /\ (det_call.op = "detect_price_anomaly" /\ Len(history) < 2)
          => det_ret = [kind |-> "return", value |-> None]
    /\ (det_call.op = "detect_volume_anomaly" /\ Len(history) < 10)
          => det_ret = [kind |-> "return", value |-> None]
    /\ (det_call.op = "detect_sma_divergence" /\ Len(history) < 25)
          => det_ret = [kind |-> "return", value |-> None]
    /\ (det_call.op = "detect_anomalies" /\ Len(history) = 0)
          => det_ret = [kind |-> "return", value |-> <<>>]

\* 24 candles that would fire with one more: the SMA rule has abstained
C18_Witness ==
    /\ det_call.op = "detect_sma_divergence"
    /\ Len(history) = 24
    /\ SumCloseAt(0, 9) = 1100 /\ SumCloseAt(0, 19) = 2100
    /\ det_ret = [kind |-> "return", value |-> None]

\* what a rule contributes to the list: its record if it returned one
Listed(r) == IF r.kind = "return" /\ r.value # None THEN <<r.value>> ELSE <<>>

\* C19: detect_anomalies returns the records of the rules that fire on the
\* history, in the order price, volume, SMA, whatever the other rules do.
C19_AllRulesInOrder ==
    det_call.op = "detect_anomalies" =>
        det_ret = [kind |-> "return",
                   value |-> Listed(detect_price_anomaly(history))
                             \o Listed(detect_volume_anomaly(history))
                             \o Listed(detect_sma_divergence(history))]

-----------------------------------------------------------------------------
(* Properties of get_ohlcv_data and of the candle it returns *)

\* C22: get_ohlcv_data returns None exactly when no trade has been folded
\* since construction or the last reset; otherwise it returns the open
\* interval's candle: symbol, current interval key, open, high, low, close,
\* volume and trade_count of the aggregate; the call changes neither
\* current_interval nor ohlcv_data.
C22_GetOhlcvData ==
    [][call'.op = "get_ohlcv_data" =>
          /\ ret'.kind = "return"
          /\ (ret'.value = None) <=> (since_reset = 0)
          /\ since_reset > 0 =>
                ret'.value = [symbol |-> symbol, timestamp |-> current_interval,
                              open |-> ohlcv_data.open[1], high |-> ohlcv_data.high[1],
                              low |-> ohlcv_data.low[1], close |-> ohlcv_data.close[1],
                              volume |-> ohlcv_data.volume,
                              trade_count |-> ohlcv_data.trade_count]
          /\ since_reset > 0 => ohlcv_data.trade_count = since_reset
          /\ current_interval' = current_interval
          /\ ohlcv_data' = ohlcv_data]_vars

\* get_ohlcv_data has returned the candle of two trades, the first at price 0
C22_Witness ==
    /\ call.op = "get_ohlcv_data"
    /\ ret.value # None
    /\ ret.value.open = 0
    /\ ret.value.trade_count = 2
    /\ since_reset = 2

-----------------------------------------------------------------------------
(* Properties of the processor's lambda_handler: its result *)

\* C24: no trade is folded before store_raw_data_in_s3 has been called for
\* its record, an invocation raises only when something failed, and once the
\* handler has returned from a batch of N records it has returned status 200
\* with 'Processed N records', called store_raw_data_in_s3 N times and folded
\* N trades; from an empty batch it has stored nothing.
C24_ProcessedAllRecords ==
    /\ h_folds <= Len(s3_puts) /\ Len(s3_puts) <= batch_size
    /\ pc = "raised" => raise_cause # "none"
    /\ pc = "done" =>
          /\ response = [statusCode |-> 200,
                         message |-> <<"Processed ", batch_size, " records">>]
          /\ Len(s3_puts) = batch_size
          /\ h_folds = batch_size
          /\ batch_size = 0 => (s3_puts = <<>> /\ stored = <<>>)

\* the handler has returned from a batch of three records
C24_Witness ==
    /\ pc = "done"
    /\ batch_size = 3
    /\ Len(s3_puts) = 3
    /\ response.statusCode = 200

\* C25: once a record could not be handled (its body is not JSON, or storing
\* or folding it failed) the invocation has raised and has returned nothing,
\* and stays so until the handler is invoked on another batch.
C25_FailureRaises ==
    [][/\ raise_cause' # "none" => (pc' = "raised" /\ response' = None)
       /\ pc = "raised" => (pc' = "raised" \/ invocations' = invocations + 1)]_vars

\* a record was stored in S3 and then could not be folded
C25_Witness ==
    /\ pc = "raised"
    /\ raise_cause = "fold"
    /\ Len(s3_puts) = 2
    /\ response = None

-----------------------------------------------------------------------------
(* Properties of the anomaly records *)

\* the gauge of a record against its threshold: the absolute value of the
\* percentage or ratio the record carries
Measured(record) ==
    FAbs(IF record.type = "price_movement" THEN record.price_change_pct
         ELSE IF record.type = "volume_spike" THEN record.volume_ratio
         ELSE record.divergence_pct)

WellFormedRecord(record, type, threshold) ==
    /\ record.type = type
    /\ record.symbol = history[1].symbol
    /\ record.timestamp = history[1].timestamp
    /\ record.threshold = threshold
    /\ record.severity \in {"medium", "high"}
    /\ Measured(record).num > threshold * Measured(record).den
    /\ record.severity = "high" =>
          Measured(record).num > 2 * threshold * Measured(record).den

\* C26: every record a rule returns carries the symbol and the timestamp of
\* the candle at index 0, the threshold of its rule, the type of its rule and
\* a severity of medium or high, high only with a measured value above twice
\* the threshold.
C26_RecordFields ==
    /\ (det_call.op = "detect_price_anomaly" /\ Fired)
          => WellFormedRecord(det_ret.value, "price_movement", PRICE_THRESHOLD)
    /\ (det_call.op = "detect_volume_anomaly" /\ Fired)
          => WellFormedRecord(det_ret.value, "volume_spike", VOLUME_THRESHOLD)
    /\ (det_call.op = "detect_sma_divergence" /\ Fired)
          => WellFormedRecord(det_ret.value, "sma_divergence", SMA_THRESHOLD)
    /\ (det_call.op = "detect_anomalies" /\ det_ret.kind = "return")
          => \A i \in 1..Len(det_ret.value) :
                \E type \in {"price_movement", "volume_spike", "sma_divergence"} :
                   WellFormedRecord(det_ret.value[i], type,
                        IF type = "price_movement" THEN PRICE_THRESHOLD
                        ELSE IF type = "volume_spike" THEN VOLUME_THRESHOLD
                        ELSE SMA_THRESHOLD)

\* the volume rule has returned a high record on 26 candles
C26_Witness ==
    /\ det_call.op = "detect_volume_anomaly"
    /\ Len(history) = 26
    /\ Fired
    /\ det_ret.value.severity = "high"
    /\ det_ret.value.timestamp = 25

-----------------------------------------------------------------------------
(* Properties of the detector's lambda_handler *)

IsPrefix(xs, ys) == Len(xs) <= Len(ys) /\ xs = SubSeq(ys, 1, Len(xs))

-----------------------------------------------------------------------------
(* Properties of the GCP processor *)

GcpAllFinished ==
    g_started >= 1 /\ \A i \in 1..g_started : g_inv[i].pc \in {"done", "raised"}

\* C27: once all the invocations started have finished, however their get
\* and set steps interleaved, each document's trade_count is the number of
\* trades that arrived for it, its volume the sum of their volumes, its high
\* and low the maximum and minimum of their prices.
C27_NoLostUpdate ==
    GcpAllFinished =>
        \A id \in GcpDocIds :
           g_ledger[id] # None =>
              /\ firestore[id] # None
              /\ firestore[id].trade_count = g_ledger[id].trade_count
              /\ firestore[id].volume = g_ledger[id].volume
              /\ firestore[id].high = g_ledger[id].high
              /\ firestore[id].low = g_ledger[id].low

-----------------------------------------------------------------------------
(* Properties of the producer *)

\* C28: after main() has constructed the producer and called run(), the
\* producer eventually calls connect_websocket at least once.
C28_EventuallyConnects ==
    (entry = "main") => <>attempted

\* the messages of the send_message calls are in arrival order
InArrivalOrder(q) == \A i, j \in 1..Len(q) : i < j => q[i] < q[j]

\* C29: for two messages received one after the other, the send_message call
\* of the first happens before that of the second, however the sender
\* threads interleave.
C29_SentInArrivalOrder ==
    InArrivalOrder(queue)

\* C30: the consecutive-failure count never exceeds 3; a return of
\* connect_websocket without an exception resets it to 0; a failed attempt
\* ends run() exactly when it is the third in a row and is otherwise
\* followed, while the producer is running, by a new attempt; and run()
\* terminates once no attempt connects any more.
C30_RetriesUntilThreeFailures ==
    /\ [](retry_count <= max_retries)
    /\ [][(p_pc \in {"test", "recv"} /\ p_pc' = "loop") => retry_count' = 0]_vars
    /\ [][(p_pc = "connecting" /\ retry_count' = retry_count + 1)
             => (p_pc' = "returned") = (retry_count' = max_retries)]_vars
    /\ []((p_pc = "returned" /\ running) => retry_count = max_retries)
    /\ (p_pc = "sleeping" /\ running) ~> (p_pc = "connecting" \/ ~running)
    /\ (<>[](p_pc \notin {"test", "recv"})) => <>(p_pc = "returned")

C30_Witness ==
    p_pc = "returned" /\ running /\ retry_count = max_retries /\ p_reset

\* the invocations so far ran one after the other and all have finished
GcpSequential == GcpAllFinished /\ ~g_raced

\* the candle of the OHLCVCalculator that was given the trades of a document
AwsCandle(id) ==
    get_ohlcv_data(g_calc[id].symbol, g_calc[id].current_interval, g_calc[id].ohlcv_data)

\* C31: for the same sequence of trades of one symbol inside one minute the
\* Firestore document and the candle of OHLCVCalculator have equal open,
\* high, low, close, trade_count and volume.
C31_GcpEqualsAws ==
    GcpSequential =>
        \A id \in GcpDocIds :
           g_ledger[id] # None =>
              /\ firestore[id] # None
              /\ AwsCandle(id) # None
              /\ firestore[id].open = AwsCandle(id).open
              /\ firestore[id].high = AwsCandle(id).high
              /\ firestore[id].low = AwsCandle(id).low
              /\ firestore[id].close = AwsCandle(id).close
              /\ firestore[id].trade_count = AwsCandle(id).trade_count
              /\ firestore[id].volume = AwsCandle(id).volume

\* C33: run sequentially, every set changes only the document of the trade's
\* own symbol and minute, and once the invocations have finished each
\* document's trade_count is the number of trades that arrived for it, its
\* open the first of them, its close the last, its high and low the maximum
\* and minimum of their prices; a document no trade arrived for does not exist.
C33_SequentialFolding ==
    /\ [](GcpSequential =>
            \A id \in GcpDocIds :
               IF g_ledger[id] = None
               THEN firestore[id] = None
               ELSE /\ firestore[id] # None
                    /\ firestore[id].trade_count = g_ledger[id].trade_count
                    /\ firestore[id].open = g_ledger[id].open
                    /\ firestore[id].close = g_ledger[id].close
                    /\ firestore[id].high = g_ledger[id].high
                    /\ firestore[id].low = g_ledger[id].low)
    /\ [][\A i \in 1..g_started :
             (g_inv[i].pc = "set" /\ g_inv'[i].pc = "done") =>
                \A id \in GcpDocIds :
                   id # GcpDocId(g_inv[i].data.symbol, g_inv[i].data.minute_key)
                      => firestore'[id] = firestore[id]]_vars

C33_Witness ==
    /\ GcpSequential
    /\ \E id1, id2 \in GcpDocIds :
          /\ id1 # id2
          /\ firestore[id1] # None
          /\ firestore[id2] # None
          /\ firestore[id1].trade_count = 2
          /\ firestore[id1].high # firestore[id1].low

-----------------------------------------------------------------------------
(* Properties of a failing batch *)

\* what makes the handling of a record raise
RecordCauses == {"json", "timestamp", "s3", "fold"}

C34_StopEndsRun ==
    /\ [](after_stop.active => (after_stop.handled <= 1 /\ ~after_stop.attempt))
    /\ after_stop.active ~> (p_pc = "returned")

\* stop() came while a receive was awaited, one more message was handled and
\* run() has returned
C34_Witness ==
    /\ after_stop.active
    /\ after_stop.handled = 1
    /\ received >= 1
    /\ p_pc = "returned"
    /\ retry_count = 0

-----------------------------------------------------------------------------
(* Properties of a failing alert *)

\* the symbols of a sequence of anomaly records
SymbolsOf(records) == {records[i].symbol : i \in 1..Len(records)}

\* the symbols of a sequence of symbols
Elements(seq) == {seq[i] : i \in 1..Len(seq)}

\* C35: once publishing an alert has failed the handler has raised: the
\* failed anomaly and the remaining ones of its symbol are still unpublished,
\* no anomaly of a symbol not yet reached has been found or handed over, the
\* alerts published before stay counted, and nothing of this changes again.
C35_SnsFailureRaises ==
    /\ [](a_cause = "sns" =>
            /\ a_pc = "raised"
            /\ a_response = None
            /\ a_pending # <<>>
            /\ published = Len(alerts) - 1
            /\ alerts[Len(alerts)] = Head(a_pending)
            /\ Len(all_anomalies) = Len(alerts) + Len(a_pending) - 1
            /\ SymbolsOf(all_anomalies) \cap Elements(a_todo) = {})
    /\ [][(a_cause' = "sns" /\ a_cause # "sns") =>
             (published' = published /\ a_todo' = a_todo /\ a_pending' = a_pending)]_vars
    /\ [][a_cause = "sns" =>
             UNCHANGED <<alerts, published, a_todo, a_pending, all_anomalies>>]_vars

\* the first alert of a symbol was published, the second failed, and another
\* symbol was still to come
C35_Witness ==
    /\ a_cause = "sns"
    /\ a_pc = "raised"
    /\ published = 1
    /\ Len(alerts) = 2
    /\ a_todo # <<>>

-----------------------------------------------------------------------------
(* Properties of get_latest_ohlcv_data *)

\* the scanned items that have both a symbol and a timestamp
Complete == {i \in 1..Len(scan_items) :
                scan_items[i].symbol # None /\ scan_items[i].timestamp # None}

\* C36: the items returned are, one for each distinct symbol among the
\* scanned items that have both a symbol and a timestamp, the item of that
\* symbol with the greatest timestamp, whatever the order of the scan.
C36_LatestPerSymbol ==
    (api_response # None /\ api_response.statusCode = 200) =>
        LET body == api_response.body IN
        /\ \A i \in Complete :
              Cardinality({k \in 1..Len(body) :
                              body[k].symbol = scan_items[i].symbol}) = 1
        /\ \A k \in 1..Len(body) :
              /\ \E i \in Complete : scan_items[i] = body[k]
              /\ \A i \in Complete :
                    scan_items[i].symbol = body[k].symbol
                       => ~KeyLess(body[k].timestamp, scan_items[i].timestamp)

\* three items were scanned with the latest of a symbol first, and an item
\* without a timestamp was left out
C36_Witness ==
    /\ api_response # None
    /\ api_response.statusCode = 200
    /\ Len(scan_items) = 3
    /\ Len(api_response.body) = 1
    /\ Cardinality(Complete) = 2
    /\ api_response.body[1] = scan_items[1]
    /\ scan_items[3].symbol = scan_items[1].symbol

====
